---- MODULE Spec2Model ----
(***************************************************************************)
(* Job pipeline of the spreadsheet-compare service: job store, stream      *)
(* queues with consumer groups, keyed leases, the compute worker, the      *)
(* paygate worker, the payment notify handler, cancel and download.        *)
(*                                                                         *)
(* One job is followed through the pipeline.  Every remote call (store,    *)
(* queue, lease, payment provider, blob store) is one atomic step of the   *)
(* process that issues it, so all interleavings of the remote calls of     *)
(* concurrent handlers are explored; a remote call may fail where the code *)
(* handles or discards its error.                                          *)
(*                                                                         *)
(* Spec        the whole pipeline from intake on                           *)
(* SpecExport  download requests against any stored record                 *)
(* SpecReplay  one notification delivered repeatedly to any stored record  *)
(* SpecRace    cancel and notify racing on a job in awaiting_payment       *)
(* SpecLoop    the stream consumer around any handler (SpecLoopFair: with  *)
(*             one consumer that keeps looping)                            *)
(* SpecDuplicate  two compute workers and intake, leases kept alive        *)
(* SpecCrash   the same with workers that may be killed                    *)
(* SpecLease   the lock client: acquire, refresh, release, expiry          *)
(* SpecStore   the store client: create and update on both stores          *)
(* SpecPay     the paygate worker and the provider's callback              *)
(* SpecGate    the paygate worker, notifications and cancel, any fee       *)
(***************************************************************************)
EXTENDS Integers, FiniteSets, Sequences, TLC

\* ------------------------------------------------------------------ bounds
MaxFee == 1        \* configured fee (COMPARE_JOB_FEE_FEN) ranges over 0..MaxFee
MaxTime == 1       \* time.Now() ranges over 1..MaxTime
MaxReplay == 3     \* deliveries of one notification in SpecReplay
LoopLen == 2       \* messages on the stream in SpecLoop
ScanLimit == 1     \* pending entries one XAUTOCLAIM call examines in SpecLoop
MaxTTL == 2        \* lifetime of a lease key, in clock steps, in SpecLease

\* RedisCompareJobStore.Update: attempts of the optimistic transaction.
MaxRetries == 8

\* The largest argument of SetConcurrency, and the messages one consumer is
\* delivered.
MaxFanout == 3
MaxDeliveries == 5

\* The longest cell value enumerated in full in SpecNormalize.
MaxLen == 4

\* The longest header row in SpecHeaders.
MaxCols == 3

\* The most rows of a table enumerated in full.
MaxRows == 2

\* Refresh calls followed after Process has returned.
StreamMaxLen == 1  \* RedisStreamQueue.maxLen in SpecTrim
MaxAdds == 3       \* entries ever added to the stream in SpecTrim
MaxLate == 2

\* GenerateCompareExportXLSX: the rows loadKeyedSheetXLSX peeks at to guess
\* the key column.
CheckRows == 5

\* loadKeyedSheetXLSX, buildKeyRowMap: the repeated keys an error message
\* lists.
MaxExamples == 10

Jobs == {"j1"}
Fees == 0..MaxFee
Times == 1..MaxTime
Totals == 1..(MaxFee + 1)   \* amount.total of a notification, in fen
TradeStates == {"SUCCESS", "success", "NOTPAY"}

\* ------------------------------------------------------------- job record
Processing == "processing"
AwaitingPayment == "awaiting_payment"
Ready == "ready"
Failed == "failed"
Cancelled == "cancelled"
Statuses == {Processing, AwaitingPayment, Ready, Failed, Cancelled}

\* A key of the store that holds no record (redis.Nil / missing map entry).
NoJob ==
  [Exists |-> FALSE, Status |-> "", File1OSSKey |-> "", File2OSSKey |-> "",
   ResultPath |-> "", ResultOSSKey |-> "", AmountYuan |-> 0, CodeURL |-> "",
   Paid |-> FALSE, PaidAt |-> 0, CancelledAt |-> 0, Error |-> ""]

\* The record handleCreateJob builds.  AmountYuan is kept in hundredths of a
\* yuan; PaidAt and CancelledAt are 0 for a nil pointer.
NewJob ==
  [Exists |-> TRUE, Status |-> Processing, File1OSSKey |-> "in1",
   File2OSSKey |-> "in2", ResultPath |-> "", ResultOSSKey |-> "",
   AmountYuan |-> 0, CodeURL |-> "", Paid |-> FALSE, PaidAt |-> 0,
   CancelledAt |-> 0, Error |-> ""]

\* ossstore.Store.ObjectKeyForJob: path.Join(prefix, jobID, "compare.xlsx").
ObjectKeyForJob(id) == "compare/" \o id \o "/compare.xlsx"

\* wechat.CreateNativeOrder on success: a non-empty code_url.
CodeURLFor(id) == "weixin://" \o id

hasResult(j) == j.ResultOSSKey # "" \/ j.ResultPath # ""

\* float64(feeFen) / 100.0, in hundredths of a yuan.
YuanOfFen(feeFen) == feeFen

\* notify.go: expectedFen := round(AmountYuan*100); <= 0 falls back to 1.
ExpectedFen(j) == IF j.AmountYuan <= 0 THEN 1 ELSE j.AmountYuan

ToUpper(s) == IF s = "success" THEN "SUCCESS" ELSE s

\* ---------------------------------------------------------------- mutators
\* compare.Worker.Process: "Mark as processing (best-effort)".
MarkProcessing(j) ==
  IF j.Status = Cancelled THEN j
  ELSE [j EXCEPT !.Status = Processing, !.Error = ""]

PersistResultUnguarded(j, ossKey) ==
  [j EXCEPT !.ResultOSSKey = ossKey, !.ResultPath = ""]

\* compare.Worker.Process: "Persist result location early".
PersistResult(j, ossKey) ==
  IF j.Status = Cancelled THEN j
  ELSE [j EXCEPT !.ResultOSSKey = ossKey, !.ResultPath = ""]

\* compare.Worker.fail
ComputeFail(j, msg) == [j EXCEPT !.Status = Failed, !.Error = msg]

\* paygate.Worker.fail
PaygateFail(j, msg) == [j EXCEPT !.Status = Failed, !.Error = msg]

\* handleCreateJob: the enqueue-failure marking.
IntakeFail(j, msg) == [j EXCEPT !.Status = Failed, !.Error = msg]

\* paygate.Worker.Process: "If payment already confirmed, release".
PaidRelease(j, ossKey) ==
  IF j.Status = Cancelled THEN j
  ELSE [j EXCEPT !.Status = Ready, !.ResultOSSKey = ossKey, !.ResultPath = "",
                 !.AmountYuan = 0, !.CodeURL = "", !.Error = ""]

FreeReleaseWithoutPayment(j, ossKey, now) ==
  IF j.Status = Cancelled THEN j
  ELSE [j EXCEPT !.Status = Ready, !.ResultOSSKey = ossKey, !.ResultPath = "",
                 !.AmountYuan = 0, !.CodeURL = "", !.Error = ""]

\* paygate.Worker.Process: the free path (fee <= 0).
FreeRelease(j, ossKey, now) ==
  IF j.Status = Cancelled THEN j
  ELSE [j EXCEPT !.Paid = TRUE,
                 !.PaidAt = IF j.Paid THEN j.PaidAt ELSE now,
                 !.Status = Ready, !.ResultOSSKey = ossKey, !.ResultPath = "",
                 !.AmountYuan = 0, !.CodeURL = "", !.Error = ""]

SetAwaitingUnguarded(j, ossKey, feeFen, codeURL) ==
  IF j.Status = Cancelled THEN j
  ELSE [j EXCEPT !.Status = AwaitingPayment, !.ResultOSSKey = ossKey,
                 !.ResultPath = "", !.AmountYuan = YuanOfFen(feeFen),
                 !.CodeURL = codeURL, !.Error = ""]

\* paygate.Worker.Process: the transition to awaiting_payment.
SetAwaiting(j, ossKey, feeFen, codeURL) ==
  IF j.Status = Cancelled \/ j.Paid THEN j
  ELSE [j EXCEPT !.Status = AwaitingPayment, !.ResultOSSKey = ossKey,
                 !.ResultPath = "", !.AmountYuan = YuanOfFen(feeFen),
                 !.CodeURL = codeURL, !.Error = ""]

NotifyMutatorNoStatusCheck(j, now) ==
  IF j.Paid THEN j
  ELSE LET p == [j EXCEPT !.Paid = TRUE, !.PaidAt = now]
       IN IF hasResult(p)
          THEN [p EXCEPT !.Status = Ready, !.AmountYuan = 0, !.CodeURL = ""]
          ELSE IF p.Status = AwaitingPayment
               THEN [p EXCEPT !.Status = Processing]
               ELSE p

NotifyMutatorNotIdempotent(j, now) ==
  LET p == [j EXCEPT !.Paid = TRUE, !.PaidAt = now]
  IN IF hasResult(p) /\ p.Status \in {AwaitingPayment, Processing}
     THEN [p EXCEPT !.Status = Ready, !.AmountYuan = 0, !.CodeURL = ""]
     ELSE IF p.Status = AwaitingPayment
          THEN [p EXCEPT !.Status = Processing]
          ELSE p

\* notifyHandler.handle: the mutator passed to store.Update.
NotifyMutator(j, now) ==
  IF j.Paid THEN j
  ELSE LET p == [j EXCEPT !.Paid = TRUE, !.PaidAt = now]
       IN IF hasResult(p) /\ p.Status \in {AwaitingPayment, Processing}
          THEN [p EXCEPT !.Status = Ready, !.AmountYuan = 0, !.CodeURL = ""]
          ELSE IF p.Status = AwaitingPayment
               THEN [p EXCEPT !.Status = Processing]
               ELSE p

CancelMutatorResetsPayment(j, now) ==
  [j EXCEPT !.Status = Cancelled, !.CancelledAt = now, !.Paid = FALSE,
            !.PaidAt = 0]

\* handleCancelJob: the mutator passed to store.Update.
CancelMutator(j, now) ==
  IF j.Paid THEN j
  ELSE [j EXCEPT !.Status = Cancelled, !.CancelledAt = now]

\* ------------------------------------------------------------------- state
Streams == {"compute", "paygate"}
Consumers == {"c1", "c2", "p1"}
StreamOf(c) == IF c = "p1" THEN "paygate" ELSE "compute"
NoOwner == "none"

\* redislock.Client.Key with the worker's name for the job: the compute
\* worker locks Key(jobID), the paygate worker Key("paygate:" + jobID).
LockKey(s, id) == IF s = "paygate" THEN "paygate:" \o id ELSE id
LockKeys == {LockKey(s, id) : s \in Streams, id \in Jobs}

VARIABLES
  jobs,     \* the job store: job id -> record (NoJob when the key is absent)
  fee,      \* paygate.FeeFen(): the configured fee of the deployment
  intake,   \* handleCreateJob per job id: "new", "created", "accepted", "rejected"
  msgs,     \* stream -> sequence of job ids appended by XADD (a message's id is its index)
  cursor,   \* stream -> last id delivered to the group by XREADGROUP ">"
  pel,      \* stream -> pending entries list: set of <<id, owning consumer>>
  inbox,    \* consumer -> messages fetched or claimed and not yet dispatched
  h,        \* consumer -> the handler invocation it runs (handleOne + Process)
  lease,    \* lock key -> owner token, or NoOwner
  orders,   \* job id -> external payment orders created by CreateNativeOrder
  notify,   \* the notify handler's request in flight and its last reply
  cancel,   \* the cancel handler's request in flight and its last reply
  export,   \* the last download request: the record it loaded and its answer
  replay,   \* redelivery of one notification: deliveries handled, the
            \* transaction, the record after the first delivery
  faults,   \* whether a remote call may fail in this run
  claimStart, \* consumer -> Consumer.claimStart, the XAUTOCLAIM scan cursor
  aged,     \* stream -> pending ids delivered at least claimMinIdle ago
  ttl,      \* lock key -> remaining lifetime of the key (PX), 0 when absent
  holds,    \* lock token -> the key its invocation acquired and has not released
  lockCall, \* the last call on the lock client and its answer
  storeKind, \* the CompareJobStore in use: "redis" or "memory"
  updates,  \* store client -> the Update call it runs
  storeCall, \* the last Create call and its answer
  fan,      \* one consumer's fan-out: its limit, the batch it dispatches, the
            \* slots of c.concur in use and its handler goroutines
  calc,     \* one call into excelcmp: the function, its arguments, its result
  kick,     \* one invocation of Process that takes a lease: its position, the
            \* channel stopKick, the ticker and the refresher goroutine
  proc,     \* one worker process: its context, its consume loop and whether
            \* it has exited
  trimmed   \* stream -> ids of the entries that XADD MAXLEN has evicted

\* The state that the pipeline's own actions leave alone.
ext == <<fan, calc, kick, proc, trimmed>>

aux == <<faults, claimStart, aged, ttl, holds, lockCall, storeKind, updates, storeCall, ext>>

vars == <<jobs, fee, intake, msgs, cursor, pel, inbox, h, lease, orders,
          notify, cancel, export, replay, aux>>

IdleHandler ==
  [pc |-> "idle", msg |-> 0, job |-> "", key |-> "", held |-> FALSE, res |-> "none"]

\* state and total are the transaction under check; reply is the last answer.
IdleNotify ==
  [pc |-> "idle", job |-> "", state |-> "", total |-> 0, reply |-> "none"]

\* reply is the status code of the last answer (0 before the first).
IdleCancel == [pc |-> "idle", job |-> "", reply |-> 0]

NoExport == [code |-> 0, job |-> NoJob]

NoReplay == [n |-> 0, state |-> "", total |-> 0, first |-> NoJob]

\* redislock.Token: 16 random bytes, one token per invocation of Process.
Tokens == {"t1", "t2", "t3"}

NoCall == [op |-> "none", token |-> "", key |-> "", ok |-> FALSE, seq |-> 0]

\* No lock call made yet (the leases of the pipeline are followed in lease
\* alone, without their lifetimes).
LockRest ==
  /\ ttl = [k \in LockKeys |-> 0]
  /\ holds = [t \in Tokens |-> ""]
  /\ lockCall = NoCall

Updaters == {"u1", "u2"}

\* snap is the copy fn has run on; dirty says the watched key was written.
IdleUpdate ==
  [pc |-> "idle", id |-> "", mut |-> "", snap |-> NoJob, dirty |-> FALSE,
   tries |-> 0, reply |-> "none"]

NoCreate == [id |-> "", before |-> NoJob, err |-> "none"]

\* The production store (cmd/compare-worker: Redis) with no call in flight;
\* the pipeline's actions take each store call as one step.
StoreRest ==
  /\ storeKind = "redis"
  /\ updates = [u \in Updaters |-> IdleUpdate]
  /\ storeCall = NoCreate

\* One consumer and its handler goroutines.  fan.n is the argument of
\* SetConcurrency, fan.cap the capacity of c.concur (0: c.concur is nil),
\* fan.at the call the loop makes next, fan.batch the messages of the last
\* reply not yet dispatched, fan.tokens the length of c.concur; started,
\* running and ending count the goroutines before, inside and after
\* handleOne; busy says the loop itself is inside handleOne.  fan.left bounds
\* the messages the stream delivers to this consumer.
NewFan ==
  [n |-> 0, cap |-> 0, left |-> MaxDeliveries, at |-> "new", batch |-> 0,
   tokens |-> 0, started |-> 0, running |-> 0, ending |-> 0, busy |-> FALSE]

\* No call into the diff engine.
NoCalc == [fn |-> "none"]

\* Streams far below their MAXLEN: no entry has been evicted.
NoneTrimmed == [s \in {"compute", "paygate"} |-> {}]

\* No invocation of Process under observation.
NoKick == [pc |-> "none"]

\* The worker process before a signal: its context is live.
NoProc == [ctx |-> "live", at |-> "loop", killed |-> 0]

ExtRest ==
  /\ fan = NewFan
  /\ calc = NoCalc
  /\ kick = NoKick
  /\ proc = NoProc
  /\ trimmed = NoneTrimmed

\* pipeline is the state of the job pipeline; PipelineRest is that state
\* before any request, as Init has it.
pipeline == <<jobs, fee, intake, msgs, cursor, pel, inbox, h, lease, orders,
              notify, cancel, export, replay>>

PipelineRest ==
  /\ jobs = [id \in Jobs |-> NoJob]
  /\ fee = 0
  /\ intake = [id \in Jobs |-> "new"]
  /\ msgs = [s \in Streams |-> << >>]
  /\ cursor = [s \in Streams |-> 0]
  /\ pel = [s \in Streams |-> {}]
  /\ inbox = [c \in Consumers |-> << >>]
  /\ h = [c \in Consumers |-> IdleHandler]
  /\ lease = [k \in LockKeys |-> NoOwner]
  /\ orders = [id \in Jobs |-> 0]
  /\ notify = IdleNotify
  /\ cancel = IdleCancel
  /\ export = NoExport
  /\ replay = NoReplay

\* The consumers before their first XAUTOCLAIM (NewConsumer: claimStart
\* "0-0"), no message old enough to be claimed.
AuxRest ==
  /\ claimStart = [c \in Consumers |-> 0]
  /\ aged = [s \in Streams |-> {}]
  /\ LockRest
  /\ StoreRest
  /\ ExtRest


Init ==
  /\ jobs = [id \in Jobs |-> NoJob]
  /\ fee \in Fees
  /\ intake = [id \in Jobs |-> "new"]
  /\ msgs = [s \in Streams |-> << >>]
  /\ cursor = [s \in Streams |-> 0]
  /\ pel = [s \in Streams |-> {}]
  /\ inbox = [c \in Consumers |-> << >>]
  /\ h = [c \in Consumers |-> IdleHandler]
  /\ lease = [k \in LockKeys |-> NoOwner]
  /\ orders = [id \in Jobs |-> 0]
  /\ notify = IdleNotify
  /\ cancel = IdleCancel
  /\ export = NoExport
  /\ replay = NoReplay
  /\ faults = TRUE
  /\ AuxRest

\* ------------------------------------------------------------------- store
\* CompareJobStore.Update: load, apply the mutator, write back; a call that
\* returns an error (or finds no record) leaves the store as it was.
StoreUpdate(id, new, outcome) ==
  jobs' = IF outcome = "ok" /\ jobs[id].Exists THEN [jobs EXCEPT ![id] = new]
          ELSE jobs

\* The outcomes of a remote call whose error the caller handles.
CallOutcomes == IF faults THEN {"ok", "err"} ELSE {"ok"}

StoreOutcomes == CallOutcomes

\* ------------------------------------------------------------------ queue
\* RedisStreamQueue.Enqueue: XADD of {jobId}.
Enqueue(s, id) == msgs' = [msgs EXCEPT ![s] = Append(@, id)]

PendingIds(s) == {p[1] : p \in pel[s]}

\* Consumer.ack: XACK removes the id from the group's pending list, whoever
\* owns it.
AckMutantAlways(s, m, err) == {p \in pel[s] : p[1] # m}

\* Consumer.handleOne, the ACK rules: nil or Terminal(err) acks, any other
\* error keeps the message pending.
AfterHandler(s, m, err) ==
  IF err = "nil" \/ err = "terminal" THEN {p \in pel[s] : p[1] # m}
  ELSE pel[s]

\* ----------------------------------------------------------------- intake
\* handleCreateJob: store.Create of the new record.
IntakeCreate(id) ==
  /\ intake[id] = "new"
  /\ \E outcome \in StoreOutcomes :
       jobs' = IF outcome = "ok" /\ ~jobs[id].Exists
               THEN [jobs EXCEPT ![id] = NewJob] ELSE jobs
  /\ intake' = [intake EXCEPT ![id] = "created"]
  /\ UNCHANGED <<fee, msgs, cursor, pel, inbox, h, lease, orders, notify, cancel, export, replay, aux>>

\* handleCreateJob: the enqueue on the compute stream; on failure the job is
\* marked failed and the request answers 502.
IntakeEnqueue(id) ==
  /\ intake[id] = "created"
  /\ \E enq \in CallOutcomes, upd \in StoreOutcomes :
       IF enq = "ok"
       THEN /\ Enqueue("compute", id)
            /\ intake' = [intake EXCEPT ![id] = "accepted"]
            /\ upd = "ok"
            /\ UNCHANGED jobs
       ELSE /\ StoreUpdate(id, IntakeFail(jobs[id], "enqueue"), upd)
            /\ intake' = [intake EXCEPT ![id] = "rejected"]
            /\ UNCHANGED msgs
  /\ UNCHANGED <<fee, cursor, pel, inbox, h, lease, orders, notify, cancel, export, replay, aux>>

\* --------------------------------------------------------------- consumer
RECURSIVE SeqOfSet(_)
SeqOfSet(S) ==
  IF S = {} THEN << >>
  ELSE LET m == CHOOSE x \in S : \A y \in S : x <= y
       IN <<m>> \o SeqOfSet(S \ {m})

\* The handler's return value as handleOne sees it.
Returned(c, err) == [h[c] EXCEPT !.pc = "ret", !.res = err]

\* Consumer.ConsumeLoop: XREADGROUP ">" delivers the undelivered messages to
\* this consumer and enters them in the pending list.
ReadNew(c) ==
  LET s == StreamOf(c)
      batch == (cursor[s] + 1)..Len(msgs[s])
  IN /\ h[c].pc = "idle"
     /\ inbox[c] = << >>
     /\ batch # {}
     /\ cursor' = [cursor EXCEPT ![s] = Len(msgs[s])]
     /\ pel' = [pel EXCEPT ![s] = @ \cup {<<m, c>> : m \in batch}]
     /\ inbox' = [inbox EXCEPT ![c] = SeqOfSet(batch)]
     /\ UNCHANGED <<jobs, fee, intake, msgs, h, lease, orders, notify, cancel, export, replay, aux>>

\* Consumer.maybeAutoClaim: XAUTOCLAIM moves the pending messages that have
\* been idle for claimMinIdle to this consumer, whoever owned them.
AutoClaim(c) ==
  LET s == StreamOf(c)
  IN /\ h[c].pc = "idle"
     /\ inbox[c] = << >>
     /\ \E claimed \in (SUBSET PendingIds(s)) \ {{}} :
          /\ pel' = [pel EXCEPT ![s] =
                       {p \in @ : p[1] \notin claimed} \cup {<<m, c>> : m \in claimed}]
          /\ inbox' = [inbox EXCEPT ![c] = SeqOfSet(claimed)]
     /\ UNCHANGED <<jobs, fee, intake, msgs, cursor, h, lease, orders, notify, cancel, export, replay, aux>>

\* Consumer.handleOne: the next fetched message goes to the handler.
Dispatch(c) ==
  LET s == StreamOf(c)
      m == Head(inbox[c])
  IN /\ h[c].pc = "idle"
     /\ inbox[c] # << >>
     /\ h' = [h EXCEPT ![c] = [pc |-> "acquire", msg |-> m, job |-> msgs[s][m],
                                key |-> "", held |-> FALSE, res |-> "none"]]
     /\ inbox' = [inbox EXCEPT ![c] = Tail(@)]
     /\ UNCHANGED <<jobs, fee, intake, msgs, cursor, pel, lease, orders, notify, cancel, export, replay, aux>>

\* Worker.Process returns: the deferred lease release (redislock.Release
\* deletes the key only if it still holds this invocation's token), then
\* handleOne's acknowledgment.  The XACK that handleOne issues is taken to
\* reach the server.
Return(c) ==
  LET s == StreamOf(c)
      k == LockKey(s, h[c].job)
  IN /\ h[c].pc = "ret"
     /\ lease' = IF h[c].held /\ lease[k] = c THEN [lease EXCEPT ![k] = NoOwner]
                 ELSE lease
     /\ pel' = [pel EXCEPT ![s] = AfterHandler(s, h[c].msg, h[c].res)]
     /\ h' = [h EXCEPT ![c] = IdleHandler]
     /\ UNCHANGED <<jobs, fee, intake, msgs, cursor, inbox, orders, notify, cancel, export, replay, aux>>

\* ------------------------------------------------------------------ lease
AcquireProceedsWhenLocked(c, outcome) ==
  LET k == LockKey(StreamOf(c), h[c].job)
  IN IF outcome = "err"
     THEN /\ h' = [h EXCEPT ![c] = Returned(c, "transient")]
          /\ UNCHANGED lease
     ELSE IF lease[k] = NoOwner
     THEN /\ lease' = [lease EXCEPT ![k] = c]
          /\ h' = [h EXCEPT ![c] = [@ EXCEPT !.pc = "load", !.held = TRUE]]
     ELSE /\ h' = [h EXCEPT ![c] = [@ EXCEPT !.pc = "load"]]
          /\ UNCHANGED lease

\* redislock.Client.Acquire: SET NX PX; the handler's token is its consumer.
Acquire(c, outcome) ==
  LET k == LockKey(StreamOf(c), h[c].job)
  IN IF outcome = "err"
     THEN /\ h' = [h EXCEPT ![c] = Returned(c, "transient")]
          /\ UNCHANGED lease
     ELSE IF lease[k] = NoOwner
     THEN /\ lease' = [lease EXCEPT ![k] = c]
          /\ h' = [h EXCEPT ![c] = [@ EXCEPT !.pc = "load", !.held = TRUE]]
     ELSE /\ h' = [h EXCEPT ![c] = Returned(c, "terminal")]
          /\ UNCHANGED lease

\* The key's TTL runs out (the refresher is best-effort and stops with the
\* worker's context).
LeaseExpire(k) ==
  /\ lease[k] # NoOwner
  /\ lease' = [lease EXCEPT ![k] = NoOwner]
  /\ UNCHANGED <<jobs, fee, intake, msgs, cursor, pel, inbox, h, orders, notify, cancel, export, replay, aux>>

\* --------------------------------------------------------- compute worker
\* cmd/compare-worker/main.go always hands the worker an enabled blob store,
\* a paygate queue and a lock client, so the nil checks never fire.
ComputeConsumers == {c \in Consumers : StreamOf(c) = "compute"}
PaygateConsumers == {c \in Consumers : StreamOf(c) = "paygate"}

ResultNeverExists(job) == FALSE

\* Process: "If result already exists, only enqueue pay-gate stage".
ResultExists(job) ==
  job.ResultOSSKey # "" /\ job.Status \in {AwaitingPayment, Processing}

\* Process: acquire the job's compute lease.
ComputeAcquire(c) ==
  /\ c \in ComputeConsumers
  /\ h[c].pc = "acquire"
  /\ \E outcome \in CallOutcomes : Acquire(c, outcome)
  /\ UNCHANGED <<jobs, fee, intake, msgs, cursor, pel, inbox, orders, notify, cancel, export, replay, aux>>

\* Process: load the job, stop on a terminal status, short-circuit when the
\* result already exists, check the inputs.
ComputeLoad(c) ==
  /\ c \in ComputeConsumers
  /\ h[c].pc = "load"
  /\ \E get \in StoreOutcomes, upd \in StoreOutcomes :
       LET id == h[c].job
           job == jobs[id]
       IN IF get = "err"
          THEN /\ h' = [h EXCEPT ![c] = Returned(c, "transient")]
               /\ upd = "ok" /\ UNCHANGED jobs
          ELSE IF ~job.Exists
          THEN /\ h' = [h EXCEPT ![c] = Returned(c, "nil")]
               /\ upd = "ok" /\ UNCHANGED jobs
          ELSE IF job.Status \in {Cancelled, Ready, Failed}
          THEN /\ h' = [h EXCEPT ![c] = Returned(c, "terminal")]
               /\ upd = "ok" /\ UNCHANGED jobs
          ELSE IF ResultExists(job)
          THEN /\ h' = [h EXCEPT ![c] = [@ EXCEPT !.pc = "shortcut"]]
               /\ upd = "ok" /\ UNCHANGED jobs
          ELSE IF job.File1OSSKey = "" \/ job.File2OSSKey = ""
          THEN /\ h' = [h EXCEPT ![c] = Returned(c, "terminal")]
               /\ StoreUpdate(id, ComputeFail(jobs[id], "inputs"), upd)
          ELSE /\ h' = [h EXCEPT ![c] = [@ EXCEPT !.pc = "mark"]]
               /\ upd = "ok" /\ UNCHANGED jobs
  /\ UNCHANGED <<fee, intake, msgs, cursor, pel, inbox, lease, orders, notify, cancel, export, replay, aux>>

\* Process: the short-circuit only enqueues the paygate stage.
ComputeShortcut(c) ==
  /\ c \in ComputeConsumers
  /\ h[c].pc = "shortcut"
  /\ \E enq \in CallOutcomes :
       IF enq = "ok"
       THEN /\ Enqueue("paygate", h[c].job)
            /\ h' = [h EXCEPT ![c] = Returned(c, "terminal")]
       ELSE /\ UNCHANGED msgs
            /\ h' = [h EXCEPT ![c] = Returned(c, "transient")]
  /\ UNCHANGED <<jobs, fee, intake, cursor, pel, inbox, lease, orders, notify, cancel, export, replay, aux>>

\* Process: "Mark as processing (best-effort)".
ComputeMark(c) ==
  /\ c \in ComputeConsumers
  /\ h[c].pc = "mark"
  /\ \E upd \in StoreOutcomes :
       StoreUpdate(h[c].job, MarkProcessing(jobs[h[c].job]), upd)
  /\ h' = [h EXCEPT ![c] = [@ EXCEPT !.pc = "work"]]
  /\ UNCHANGED <<fee, intake, msgs, cursor, pel, inbox, lease, orders, notify, cancel, export, replay, aux>>

\* Process: download the inputs, convert, run the diff engine, upload the
\* artifact.  Any failure goes through fail().
ComputeWork(c) ==
  /\ c \in ComputeConsumers
  /\ h[c].pc = "work"
  /\ \E work \in {"ok", "fail"}, upd \in StoreOutcomes :
       IF work = "ok"
       THEN /\ h' = [h EXCEPT ![c] = [@ EXCEPT !.pc = "persist",
                                               !.key = ObjectKeyForJob(h[c].job)]]
            /\ upd = "ok" /\ UNCHANGED jobs
       ELSE /\ StoreUpdate(h[c].job, ComputeFail(jobs[h[c].job], "compare"), upd)
            /\ h' = [h EXCEPT ![c] = Returned(c, "terminal")]
  /\ UNCHANGED <<fee, intake, msgs, cursor, pel, inbox, lease, orders, notify, cancel, export, replay, aux>>

\* Process: "Persist result location early".
ComputePersist(c) ==
  /\ c \in ComputeConsumers
  /\ h[c].pc = "persist"
  /\ \E upd \in StoreOutcomes :
       StoreUpdate(h[c].job, PersistResult(jobs[h[c].job], h[c].key), upd)
  /\ h' = [h EXCEPT ![c] = [@ EXCEPT !.pc = "reload"]]
  /\ UNCHANGED <<fee, intake, msgs, cursor, pel, inbox, lease, orders, notify, cancel, export, replay, aux>>

\* Process: "Refresh job state after generating result".
ComputeReload(c) ==
  /\ c \in ComputeConsumers
  /\ h[c].pc = "reload"
  /\ \E get \in StoreOutcomes :
       LET job == jobs[h[c].job]
       IN h' = [h EXCEPT ![c] =
                  IF get = "err" THEN Returned(c, "transient")
                  ELSE IF ~job.Exists THEN Returned(c, "nil")
                  ELSE IF job.Status = Cancelled THEN Returned(c, "terminal")
                  ELSE [@ EXCEPT !.pc = "enqueue"]]
  /\ UNCHANGED <<jobs, fee, intake, msgs, cursor, pel, inbox, lease, orders, notify, cancel, export, replay, aux>>

ComputeEnqueueFailsTerminal(c) ==
  /\ c \in ComputeConsumers
  /\ h[c].pc = "enqueue"
  /\ \E enq \in CallOutcomes :
       IF enq = "ok"
       THEN /\ Enqueue("paygate", h[c].job)
            /\ h' = [h EXCEPT ![c] = Returned(c, "terminal")]
       ELSE /\ UNCHANGED msgs
            /\ h' = [h EXCEPT ![c] = Returned(c, "terminal")]
  /\ UNCHANGED <<jobs, fee, intake, cursor, pel, inbox, lease, orders, notify, cancel, export, replay, aux>>

\* Process: enqueue on the paygate stream.
ComputeEnqueue(c) ==
  /\ c \in ComputeConsumers
  /\ h[c].pc = "enqueue"
  /\ \E enq \in CallOutcomes :
       IF enq = "ok"
       THEN /\ Enqueue("paygate", h[c].job)
            /\ h' = [h EXCEPT ![c] = Returned(c, "terminal")]
       ELSE /\ UNCHANGED msgs
            /\ h' = [h EXCEPT ![c] = Returned(c, "transient")]
  /\ UNCHANGED <<jobs, fee, intake, cursor, pel, inbox, lease, orders, notify, cancel, export, replay, aux>>

\* --------------------------------------------------------- paygate worker
\* Process: acquire the job's paygate lease.
PaygateAcquire(c) ==
  /\ c \in PaygateConsumers
  /\ h[c].pc = "acquire"
  /\ \E outcome \in CallOutcomes : Acquire(c, outcome)
  /\ UNCHANGED <<jobs, fee, intake, msgs, cursor, pel, inbox, orders, notify, cancel, export, replay, aux>>

PaygateBranchIgnoresFee(job, feeFen) ==
  IF ~job.Exists THEN "terminal"
  ELSE IF job.Status \in {Cancelled, Ready, Failed} THEN "terminal"
  ELSE IF job.ResultOSSKey = "" THEN "transient"
  ELSE IF job.Paid THEN "paid"
  ELSE IF job.Status = AwaitingPayment /\ job.CodeURL # "" THEN "terminal"
  ELSE "order"

\* Process: load the job and pick the branch.
PaygateBranch(job, feeFen) ==
  IF ~job.Exists THEN "terminal"
  ELSE IF job.Status \in {Cancelled, Ready, Failed} THEN "terminal"
  ELSE IF job.ResultOSSKey = "" THEN "transient"
  ELSE IF job.Paid THEN "paid"
  ELSE IF feeFen <= 0 THEN "free"
  ELSE IF job.Status = AwaitingPayment /\ job.CodeURL # "" THEN "terminal"
  ELSE "order"

PaygateLoad(c) ==
  /\ c \in PaygateConsumers
  /\ h[c].pc = "load"
  /\ \E get \in StoreOutcomes :
       LET job == jobs[h[c].job]
           b == PaygateBranch(job, fee)
       IN h' = [h EXCEPT ![c] =
                  IF get = "err" THEN Returned(c, "transient")
                  ELSE IF b \in {"terminal", "transient"} THEN Returned(c, b)
                  ELSE [@ EXCEPT !.pc = b, !.key = job.ResultOSSKey]]
  /\ UNCHANGED <<jobs, fee, intake, msgs, cursor, pel, inbox, lease, orders, notify, cancel, export, replay, aux>>

\* Process: "If payment already confirmed, release".
PaygatePaid(c) ==
  /\ c \in PaygateConsumers
  /\ h[c].pc = "paid"
  /\ \E upd \in StoreOutcomes :
       StoreUpdate(h[c].job, PaidRelease(jobs[h[c].job], h[c].key), upd)
  /\ h' = [h EXCEPT ![c] = Returned(c, "terminal")]
  /\ UNCHANGED <<fee, intake, msgs, cursor, pel, inbox, lease, orders, notify, cancel, export, replay, aux>>

\* Process: the free path.
PaygateFree(c) ==
  /\ c \in PaygateConsumers
  /\ h[c].pc = "free"
  /\ \E upd \in StoreOutcomes, now \in Times :
       StoreUpdate(h[c].job, FreeRelease(jobs[h[c].job], h[c].key, now), upd)
  /\ h' = [h EXCEPT ![c] = Returned(c, "terminal")]
  /\ UNCHANGED <<fee, intake, msgs, cursor, pel, inbox, lease, orders, notify, cancel, export, replay, aux>>

\* Process: wechat.CreateNativeOrder; a refusal marks the job failed.
PaygateOrder(c) ==
  /\ c \in PaygateConsumers
  /\ h[c].pc = "order"
  /\ \E order \in CallOutcomes, upd \in StoreOutcomes :
       IF order = "ok"
       THEN /\ orders' = [orders EXCEPT ![h[c].job] = @ + 1]
            /\ h' = [h EXCEPT ![c] = [@ EXCEPT !.pc = "await"]]
            /\ upd = "ok" /\ UNCHANGED jobs
       ELSE /\ StoreUpdate(h[c].job, PaygateFail(jobs[h[c].job], "order"), upd)
            /\ h' = [h EXCEPT ![c] = Returned(c, "terminal")]
            /\ UNCHANGED orders
  /\ UNCHANGED <<fee, intake, msgs, cursor, pel, inbox, lease, notify, cancel, export, replay, aux>>

\* Process: the transition to awaiting_payment.
PaygateAwait(c) ==
  /\ c \in PaygateConsumers
  /\ h[c].pc = "await"
  /\ \E upd \in StoreOutcomes :
       StoreUpdate(h[c].job,
                   SetAwaiting(jobs[h[c].job], h[c].key, fee, CodeURLFor(h[c].job)),
                   upd)
  /\ h' = [h EXCEPT ![c] = Returned(c, "terminal")]
  /\ UNCHANGED <<fee, intake, msgs, cursor, pel, inbox, lease, orders, notify, cancel, export, replay, aux>>

\* ---------------------------------------------------------- notify handler
\* handle: what the checks on the decrypted transaction decide.  The error of
\* store.Get is discarded, so the amount is compared only when the load
\* returned a record.
NotifyVerdict(job, state, total, get) ==
  IF ToUpper(state) # "SUCCESS" THEN "SUCCESS"
  ELSE IF get = "ok" /\ job.Exists /\ total # ExpectedFen(job) THEN "FAIL"
  ELSE "update"

\* handle: a notification arrives; signature check and decryption have
\* passed.  The provider calls back only for an order it holds, so the
\* notification names a job for which CreateNativeOrder succeeded.
NotifyReceive ==
  /\ notify.pc = "idle"
  /\ \E id \in Jobs, state \in TradeStates, total \in Totals :
       /\ orders[id] > 0
       /\ notify' = [pc |-> "check", job |-> id, state |-> state,
                     total |-> total, reply |-> "none"]
  /\ UNCHANGED <<jobs, fee, intake, msgs, cursor, pel, inbox, h, lease, orders, cancel, export, replay, aux>>

\* handle: trade-state check, then the amount check against the loaded job.
NotifyCheck ==
  /\ notify.pc = "check"
  /\ \E get \in StoreOutcomes :
       LET v == NotifyVerdict(jobs[notify.job], notify.state, notify.total, get)
       IN notify' = IF v = "update"
                    THEN [IdleNotify EXCEPT !.pc = "update", !.job = notify.job]
                    ELSE [IdleNotify EXCEPT !.reply = v]
  /\ UNCHANGED <<jobs, fee, intake, msgs, cursor, pel, inbox, h, lease, orders, cancel, export, replay, aux>>

\* handle: update() and the SUCCESS reply.
NotifyUpdate ==
  /\ notify.pc = "update"
  /\ \E now \in Times, upd \in StoreOutcomes :
       StoreUpdate(notify.job, NotifyMutator(jobs[notify.job], now), upd)
  /\ notify' = [IdleNotify EXCEPT !.reply = "SUCCESS"]
  /\ UNCHANGED <<fee, intake, msgs, cursor, pel, inbox, h, lease, orders, cancel, export, replay, aux>>

\* handle from the trade-state check to the reply, with the store answering
\* every call: the record the handler leaves.
NotifyHandle(j, state, total, now) ==
  IF NotifyVerdict(j, state, total, "ok") = "update" /\ j.Exists
  THEN NotifyMutator(j, now)
  ELSE j

\* The provider delivers the notification held in replay once more, and the
\* handler runs to its reply with no other operation in between.  The clock
\* may have passed every timestamp of the record.
NotifyReplay ==
  /\ replay.n < MaxReplay
  /\ \E id \in Jobs, now \in 1..(MaxTime + 1) :
       LET after == NotifyHandle(jobs[id], replay.state, replay.total, now)
       IN /\ jobs' = [jobs EXCEPT ![id] = after]
          /\ replay' = [replay EXCEPT !.n = @ + 1,
                                      !.first = IF replay.n = 0 THEN after ELSE @]
  /\ UNCHANGED <<fee, intake, msgs, cursor, pel, inbox, h, lease, orders, notify, cancel, export, aux>>

\* ------------------------------------------------------------------ cancel
CancelGetSkipsClose ==
  /\ cancel.pc = "idle"
  /\ \E id \in Jobs, get \in StoreOutcomes :
       /\ intake[id] = "accepted"
       /\ LET job == jobs[id]
          IN cancel' =
               IF get = "err" THEN [IdleCancel EXCEPT !.reply = 500]
               ELSE IF ~job.Exists THEN [IdleCancel EXCEPT !.reply = 404]
               ELSE IF job.Status = Cancelled THEN [IdleCancel EXCEPT !.reply = 200]
               ELSE IF job.Paid \/ job.Status = Ready
               THEN [IdleCancel EXCEPT !.reply = 409]
               ELSE [IdleCancel EXCEPT !.job = id, !.pc = "update"]
  /\ UNCHANGED <<jobs, fee, intake, msgs, cursor, pel, inbox, h, lease, orders, notify, export, replay, aux>>

\* handleCancelJob: load the job and answer from its state.  The client
\* holds the job id once handleCreateJob has answered 200.
CancelGet ==
  /\ cancel.pc = "idle"
  /\ \E id \in Jobs, get \in StoreOutcomes :
       /\ intake[id] = "accepted"
       /\ LET job == jobs[id]
          IN cancel' =
               IF get = "err" THEN [IdleCancel EXCEPT !.reply = 500]
               ELSE IF ~job.Exists THEN [IdleCancel EXCEPT !.reply = 404]
               ELSE IF job.Status = Cancelled THEN [IdleCancel EXCEPT !.reply = 200]
               ELSE IF job.Paid \/ job.Status = Ready
               THEN [IdleCancel EXCEPT !.reply = 409]
               ELSE [IdleCancel EXCEPT !.job = id, !.pc =
                       IF job.Status = AwaitingPayment THEN "close" ELSE "update"]
  /\ UNCHANGED <<jobs, fee, intake, msgs, cursor, pel, inbox, h, lease, orders, notify, export, replay, aux>>

\* handleCancelJob: wechat.CloseNativeOrder before the transition.
CancelClose ==
  /\ cancel.pc = "close"
  /\ \E close \in CallOutcomes :
       cancel' = IF close = "ok" THEN [cancel EXCEPT !.pc = "update"]
                 ELSE [IdleCancel EXCEPT !.reply = 502]
  /\ UNCHANGED <<jobs, fee, intake, msgs, cursor, pel, inbox, h, lease, orders, notify, export, replay, aux>>

\* handleCancelJob: the update and the 200 answer.
CancelUpdate ==
  /\ cancel.pc = "update"
  /\ \E now \in Times, upd \in StoreOutcomes :
       StoreUpdate(cancel.job, CancelMutator(jobs[cancel.job], now), upd)
  /\ cancel' = [IdleCancel EXCEPT !.reply = 200]
  /\ UNCHANGED <<fee, intake, msgs, cursor, pel, inbox, h, lease, orders, notify, export, replay, aux>>

\* ---------------------------------------------------------------- download
DownloadCodeNoStatusCheck(job, get, oss, sign, stat) ==
  IF get = "err" THEN 500
  ELSE IF ~job.Exists THEN 404
  ELSE IF job.Status = Cancelled THEN 410
  ELSE IF ~job.Paid \/ ~hasResult(job) THEN 402
  ELSE IF job.ResultOSSKey # "" /\ oss THEN (IF sign = "ok" THEN 200 ELSE 502)
  ELSE IF job.ResultPath = "" THEN 410
  ELSE IF stat = "err" THEN 410
  ELSE 200

\* handleDownloadExport: the status code of the answer; 200 stands for the
\* release of the artifact (signed URL as JSON or 302 redirect, or the local
\* file).  oss: the blob store is enabled; sign: SignDownloadURL's outcome;
\* stat: os.Stat of the local result.
DownloadCode(job, get, oss, sign, stat) ==
  IF get = "err" THEN 500
  ELSE IF ~job.Exists THEN 404
  ELSE IF job.Status = Cancelled THEN 410
  ELSE IF ~job.Paid \/ job.Status # Ready \/ ~hasResult(job) THEN 402
  ELSE IF job.ResultOSSKey # "" /\ oss THEN (IF sign = "ok" THEN 200 ELSE 502)
  ELSE IF job.ResultPath = "" THEN 410
  ELSE IF stat = "err" THEN 410
  ELSE 200

\* handleDownloadExport: one request; export keeps the record the handler
\* loaded (none when the load failed) and the answer.
Download ==
  /\ \E id \in Jobs, get \in StoreOutcomes, oss \in BOOLEAN,
        sign \in {"ok", "err"}, stat \in {"ok", "err"} :
       /\ intake[id] = "accepted"
       /\ export' = [code |-> DownloadCode(jobs[id], get, oss, sign, stat),
                     job |-> IF get = "ok" THEN jobs[id] ELSE NoJob]
  /\ UNCHANGED <<jobs, fee, intake, msgs, cursor, pel, inbox, h, lease, orders, notify, cancel, replay, aux>>

\* ----------------------------------------------------------- specification
\* The steps of consumer c: its consume loop and the handler it runs.
ConsumerStep(c) ==
  \/ ReadNew(c)
  \/ AutoClaim(c)
  \/ Dispatch(c)
  \/ Return(c)
  \/ ComputeAcquire(c)
  \/ ComputeLoad(c)
  \/ ComputeShortcut(c)
  \/ ComputeMark(c)
  \/ ComputeWork(c)
  \/ ComputePersist(c)
  \/ ComputeReload(c)
  \/ ComputeEnqueue(c)
  \/ PaygateAcquire(c)
  \/ PaygateLoad(c)
  \/ PaygatePaid(c)
  \/ PaygateFree(c)
  \/ PaygateOrder(c)
  \/ PaygateAwait(c)

\* Two handlers of the compute stream and one of the paygate stream (each a
\* consumer handling one message at a time), the API server's create and
\* cancel handlers and the payment provider's notifications.
Next ==
  \/ \E id \in Jobs : IntakeCreate(id)
  \/ \E id \in Jobs : IntakeEnqueue(id)
  \/ \E c \in Consumers : ConsumerStep(c)
  \/ \E k \in LockKeys : LeaseExpire(k)
  \/ NotifyReceive
  \/ NotifyCheck
  \/ NotifyUpdate
  \/ CancelGet
  \/ CancelClose
  \/ CancelUpdate

Spec == Init /\ [][Next]_vars

\* --------------------------------------------- handlers on a stored record
\* Any record the store can hold for a job id.
Records ==
  {NoJob} \cup
  [Exists : {TRUE}, Status : Statuses, File1OSSKey : {"in1"},
   File2OSSKey : {"in2"}, ResultPath : {"", "/tmp/out.xlsx"},
   ResultOSSKey : {""} \cup {ObjectKeyForJob(id) : id \in Jobs},
   AmountYuan : 0..MaxFee, CodeURL : {""} \cup {CodeURLFor(id) : id \in Jobs},
   Paid : BOOLEAN, PaidAt : 0..MaxTime, CancelledAt : 0..MaxTime, Error : {""}]

\* The pipeline at rest around a stored record.
AtRest ==
  /\ fee \in Fees
  /\ intake = [id \in Jobs |-> "accepted"]
  /\ msgs = [s \in Streams |-> << >>]
  /\ cursor = [s \in Streams |-> 0]
  /\ pel = [s \in Streams |-> {}]
  /\ inbox = [c \in Consumers |-> << >>]
  /\ h = [c \in Consumers |-> IdleHandler]
  /\ lease = [k \in LockKeys |-> NoOwner]
  /\ notify = IdleNotify
  /\ cancel = IdleCancel
  /\ export = NoExport
  /\ faults = TRUE
  /\ AuxRest

\* Download requests against any stored record.
InitExport ==
  /\ AtRest
  /\ jobs \in [Jobs -> Records]
  /\ orders = [id \in Jobs |-> 0]
  /\ replay = NoReplay

NextExport == Download

SpecExport == InitExport /\ [][NextExport]_vars

\* One SUCCESS notification delivered up to MaxReplay times to the handler,
\* starting from any stored record.
InitReplay ==
  /\ AtRest
  /\ jobs \in [Jobs -> Records]
  /\ orders = [id \in Jobs |-> 1]
  /\ \E state \in {st \in TradeStates : ToUpper(st) = "SUCCESS"}, total \in Totals :
       replay = [NoReplay EXCEPT !.state = state, !.total = total]

NextReplay == NotifyReplay

SpecReplay == InitReplay /\ [][NextReplay]_vars

\* The record the paygate worker leaves when it asks for payment.
AwaitingJob(id, feeFen) ==
  SetAwaiting(PersistResult(NewJob, ObjectKeyForJob(id)), ObjectKeyForJob(id),
              feeFen, CodeURLFor(id))

\* A job in awaiting_payment, its messages handled and acknowledged; the
\* client cancels while the provider notifies.
InitRace ==
  /\ fee \in Fees \ {0}
  /\ jobs = [id \in Jobs |-> AwaitingJob(id, fee)]
  /\ intake = [id \in Jobs |-> "accepted"]
  /\ msgs = [s \in Streams |-> <<"j1">>]
  /\ cursor = [s \in Streams |-> 1]
  /\ pel = [s \in Streams |-> {}]
  /\ inbox = [c \in Consumers |-> << >>]
  /\ h = [c \in Consumers |-> IdleHandler]
  /\ lease = [k \in LockKeys |-> NoOwner]
  /\ orders = [id \in Jobs |-> 1]
  /\ notify = IdleNotify
  /\ cancel = IdleCancel
  /\ export = NoExport
  /\ replay = NoReplay
  /\ faults = TRUE
  /\ AuxRest

NextRace ==
  \/ NotifyReceive
  \/ NotifyCheck
  \/ NotifyUpdate
  \/ CancelGet
  \/ CancelClose
  \/ CancelUpdate

SpecRace == InitRace /\ [][NextRace]_vars

\* ------------------------------------------- the compute stage on its own
\* The steps of a compute consumer: its consume loop and Worker.Process.
ComputeStep(c) ==
  \/ ReadNew(c)
  \/ AutoClaim(c)
  \/ Dispatch(c)
  \/ Return(c)
  \/ ComputeAcquire(c)
  \/ ComputeLoad(c)
  \/ ComputeShortcut(c)
  \/ ComputeMark(c)
  \/ ComputeWork(c)
  \/ ComputePersist(c)
  \/ ComputeReload(c)
  \/ ComputeEnqueue(c)

\* Intake as in Init, with or without failing remote calls.
InitCompute ==
  /\ jobs = [id \in Jobs |-> NoJob]
  /\ fee \in Fees
  /\ intake = [id \in Jobs |-> "new"]
  /\ msgs = [s \in Streams |-> << >>]
  /\ cursor = [s \in Streams |-> 0]
  /\ pel = [s \in Streams |-> {}]
  /\ inbox = [c \in Consumers |-> << >>]
  /\ h = [c \in Consumers |-> IdleHandler]
  /\ lease = [k \in LockKeys |-> NoOwner]
  /\ orders = [id \in Jobs |-> 0]
  /\ notify = IdleNotify
  /\ cancel = IdleCancel
  /\ export = NoExport
  /\ replay = NoReplay
  /\ faults \in BOOLEAN
  /\ AuxRest

\* Two compute workers whose leases stay alive while they run (TTL 2 h,
\* refreshed every 30 s): a message can reach both by auto-claim.
NextDuplicate ==
  \/ \E id \in Jobs : IntakeCreate(id)
  \/ \E id \in Jobs : IntakeEnqueue(id)
  \/ \E c \in ComputeConsumers : ComputeStep(c)

SpecDuplicate == InitCompute /\ [][NextDuplicate]_vars

\* The compute stage and the cancel endpoint.  No job is awaiting payment
\* before the paygate stage has run, so handleCancelJob closes no order here.
NextCancel ==
  \/ NextDuplicate
  \/ CancelGet
  \/ CancelUpdate

SpecCancel == InitCompute /\ [][NextCancel]_vars

\* The worker process is killed while a handler runs: nothing deferred
\* runs, so the lease is not released and the message is not acknowledged.
Crash(c) ==
  /\ h[c].pc \notin {"idle", "dead"}
  /\ h' = [h EXCEPT ![c] = [@ EXCEPT !.pc = "dead"]]
  /\ inbox' = [inbox EXCEPT ![c] = << >>]
  /\ UNCHANGED <<jobs, fee, intake, msgs, cursor, pel, lease, orders, notify, cancel, export, replay, aux>>

\* The lease of a killed worker is no longer refreshed and runs out.
LeaseLapse(k) ==
  /\ \E c \in Consumers : lease[k] = c /\ h[c].pc = "dead" /\ h[c].held
  /\ lease' = [lease EXCEPT ![k] = NoOwner]
  /\ UNCHANGED <<jobs, fee, intake, msgs, cursor, pel, inbox, h, orders, notify, cancel, export, replay, aux>>

\* Two compute workers, either of which may be killed.
NextCrash ==
  \/ \E id \in Jobs : IntakeCreate(id)
  \/ \E id \in Jobs : IntakeEnqueue(id)
  \/ \E c \in ComputeConsumers : ComputeStep(c)
  \/ \E c \in ComputeConsumers : Crash(c)
  \/ \E k \in LockKeys : LeaseLapse(k)

SpecCrash == InitCompute /\ [][NextCrash]_vars

\* ------------------------------------------------------- the lease client
SetAlways(stored, token) == [value |-> token, ok |-> TRUE]

\* redislock.Client.Acquire: SET key token NX PX ttl.
SetNX(stored, token) ==
  [value |-> IF stored = NoOwner THEN token ELSE stored, ok |-> stored = NoOwner]

\* redislock.refreshScript: PEXPIRE only if GET key equals the token.
RefreshScript(stored, token) == [value |-> stored, ok |-> stored = token]

ReleaseAnyOwner(stored, token) == [value |-> NoOwner, ok |-> stored # NoOwner]

ReleaseNothing(stored, token) == [value |-> stored, ok |-> FALSE]

\* redislock.releaseScript: DEL only if GET key equals the token.
ReleaseScript(stored, token) ==
  [value |-> IF stored = token THEN NoOwner ELSE stored, ok |-> stored = token]

Called(op, t, k, ok) ==
  [op |-> op, token |-> t, key |-> k, ok |-> ok, seq |-> 1 - lockCall.seq]

LeaseFrame ==
  UNCHANGED <<jobs, fee, intake, msgs, cursor, pel, inbox, h, orders, notify, cancel, export, replay, faults, claimStart, aged, storeKind, updates, storeCall, ext>>

\* Worker.Process: a new invocation takes a token and calls Acquire.
LockAcquire(t, k) ==
  LET r == SetNX(lease[k], t)
  IN /\ holds[t] = ""
     /\ lease' = [lease EXCEPT ![k] = r.value]
     /\ ttl' = [ttl EXCEPT ![k] = IF r.ok THEN MaxTTL ELSE @]
     /\ holds' = [holds EXCEPT ![t] = IF r.ok THEN k ELSE ""]
     /\ lockCall' = Called("acquire", t, k, r.ok)
     /\ LeaseFrame

\* Worker.Process: the refresher goroutine calls Refresh on its ticker.
LockRefresh(t) ==
  LET k == holds[t]
      r == RefreshScript(lease[k], t)
  IN /\ k # ""
     /\ ttl' = [ttl EXCEPT ![k] = IF r.ok THEN MaxTTL ELSE @]
     /\ lockCall' = Called("refresh", t, k, r.ok)
     /\ UNCHANGED <<lease, holds>>
     /\ LeaseFrame

\* Worker.Process: the deferred Release when the invocation returns.
LockRelease(t) ==
  LET k == holds[t]
      r == ReleaseScript(lease[k], t)
  IN /\ k # ""
     /\ lease' = [lease EXCEPT ![k] = r.value]
     /\ ttl' = [ttl EXCEPT ![k] = IF r.value = NoOwner THEN 0 ELSE @]
     /\ holds' = [holds EXCEPT ![t] = ""]
     /\ lockCall' = Called("release", t, k, r.ok)
     /\ LeaseFrame

\* The clock advances; a key whose lifetime runs out is gone.
TTLTick(k) ==
  /\ ttl[k] > 0
  /\ ttl' = [ttl EXCEPT ![k] = @ - 1]
  /\ lease' = IF ttl[k] = 1 THEN [lease EXCEPT ![k] = NoOwner] ELSE lease
  /\ UNCHANGED <<holds, lockCall>>
  /\ LeaseFrame

\* Invocations of Process calling the lock client on the pipeline's keys.
InitLease ==
  /\ jobs = [id \in Jobs |-> NoJob]
  /\ fee = 0
  /\ intake = [id \in Jobs |-> "new"]
  /\ msgs = [s \in Streams |-> << >>]
  /\ cursor = [s \in Streams |-> 0]
  /\ pel = [s \in Streams |-> {}]
  /\ inbox = [c \in Consumers |-> << >>]
  /\ h = [c \in Consumers |-> IdleHandler]
  /\ lease = [k \in LockKeys |-> NoOwner]
  /\ orders = [id \in Jobs |-> 0]
  /\ notify = IdleNotify
  /\ cancel = IdleCancel
  /\ export = NoExport
  /\ replay = NoReplay
  /\ faults = FALSE
  /\ AuxRest

NextLease ==
  \/ \E t \in Tokens, k \in LockKeys : LockAcquire(t, k)
  \/ \E t \in Tokens : LockRefresh(t)
  \/ \E t \in Tokens : LockRelease(t)
  \/ \E k \in LockKeys : TTLTick(k)

SpecLease == InitLease /\ [][NextLease]_vars

\* ------------------------------------- one invocation and its refresher
\* Worker.Process of either worker from Acquire to its return, with the
\* goroutine it starts.  The invocation's token is KickToken, the job's key
\* KickKey.  kick.pc is the position of Process ("new", "run", "closing",
\* "releasing", "returned"), kick.held whether Acquire answered true,
\* kick.exit how Process leaves, kick.stop the channel stopKick, kick.tick
\* whether t.C holds a tick, kick.gor the goroutine ("none" before the go
\* statement, "select", "refresh" inside the Refresh call, "done"), kick.ctx
\* the context handed to Process, kick.rel the answer of the deferred
\* Release ("none" before it, "ok" answered, "err"), kick.late the Refresh
\* calls begun after Process returned.
KickToken == "t1"
KickKey == LockKey("compute", "j1")
Exits == {"nil", "terminal", "transient", "panic"}

NewKick ==
  [pc |-> "new", held |-> FALSE, exit |-> "", stop |-> "open", tick |-> FALSE,
   gor |-> "none", ctx |-> "live", rel |-> "none", late |-> 0]

KickFrame ==
  UNCHANGED <<jobs, fee, intake, msgs, cursor, pel, inbox, h, orders, notify, cancel, export, replay, faults, claimStart, aged, holds, lockCall, storeKind, updates, storeCall, fan, calc, proc, trimmed>>

\* Process: Acquire with a fresh token, the two defer statements and the go
\* statement.  An error of the call returns it; a key that is set returns
\* Terminal("job locked").
KickAcquire ==
  /\ kick.pc = "new"
  /\ \E outcome \in CallOutcomes :
       LET r == SetNX(lease[KickKey], KickToken)
       IN IF outcome = "err"
          THEN /\ kick' = [kick EXCEPT !.pc = "returned", !.exit = "transient"]
               /\ UNCHANGED <<lease, ttl>>
          ELSE /\ lease' = [lease EXCEPT ![KickKey] = r.value]
               /\ ttl' = [ttl EXCEPT ![KickKey] = IF r.ok THEN MaxTTL ELSE @]
               /\ kick' = IF r.ok
                          THEN [kick EXCEPT !.pc = "run", !.held = TRUE, !.gor = "select"]
                          ELSE [kick EXCEPT !.pc = "returned", !.exit = "terminal"]
  /\ KickFrame

\* time.Ticker: a tick is put in t.C when it has room, until t.Stop.
KickTick ==
  /\ kick.gor \in {"select", "refresh"}
  /\ ~kick.tick
  /\ kick' = [kick EXCEPT !.tick = TRUE]
  /\ UNCHANGED <<lease, ttl>>
  /\ KickFrame

\* The cases of the goroutine's select that can proceed; Go picks one of
\* them at random.
SelectReady ==
  (IF kick.stop = "closed" THEN {"stop"} ELSE {})
    \cup (IF kick.ctx = "done" THEN {"ctx"} ELSE {})
    \cup (IF kick.tick /\ kick.late < MaxLate THEN {"tick"} ELSE {})

\* The refresher goroutine at its select.
KickSelect ==
  /\ kick.gor = "select"
  /\ \E case \in SelectReady :
       kick' = IF case = "tick"
               THEN [kick EXCEPT !.gor = "refresh", !.tick = FALSE,
                                 !.late = IF kick.pc = "returned" THEN @ + 1 ELSE @]
               ELSE [kick EXCEPT !.gor = "done"]
  /\ UNCHANGED <<lease, ttl>>
  /\ KickFrame

\* The refresher goroutine: lock.Refresh with context.Background().
KickRefresh ==
  /\ kick.gor = "refresh"
  /\ \E outcome \in CallOutcomes :
       LET r == RefreshScript(lease[KickKey], KickToken)
       IN ttl' = [ttl EXCEPT ![KickKey] = IF outcome = "ok" /\ r.ok THEN MaxTTL ELSE @]
  /\ kick' = [kick EXCEPT !.gor = "select"]
  /\ UNCHANGED lease
  /\ KickFrame

\* Process leaves its body: it returns nil, a terminal or another error, or
\* panics; the deferred calls run in each case.
KickExit ==
  /\ kick.pc = "run"
  /\ \E e \in Exits : kick' = [kick EXCEPT !.pc = "closing", !.exit = e]
  /\ UNCHANGED <<lease, ttl>>
  /\ KickFrame

\* Process: the deferred close(stopKick), registered last and run first.
KickClose ==
  /\ kick.pc = "closing"
  /\ kick' = [kick EXCEPT !.pc = "releasing", !.stop = "closed"]
  /\ UNCHANGED <<lease, ttl>>
  /\ KickFrame

\* Process: the deferred lock.Release, whose answer is discarded.
KickRelease ==
  /\ kick.pc = "releasing"
  /\ \E outcome \in CallOutcomes :
       LET r == ReleaseScript(lease[KickKey], KickToken)
       IN IF outcome = "ok"
          THEN /\ lease' = [lease EXCEPT ![KickKey] = r.value]
               /\ ttl' = [ttl EXCEPT ![KickKey] = IF r.ok THEN 0 ELSE @]
               /\ kick' = [kick EXCEPT !.pc = "returned", !.rel = "ok"]
          ELSE /\ kick' = [kick EXCEPT !.pc = "returned", !.rel = "err"]
               /\ UNCHANGED <<lease, ttl>>
  /\ KickFrame

\* The context handed to Process is cancelled (the worker is told to stop).
KickCancel ==
  /\ kick.ctx = "live"
  /\ kick' = [kick EXCEPT !.ctx = "done"]
  /\ UNCHANGED <<lease, ttl>>
  /\ KickFrame

InitKick ==
  /\ PipelineRest
  /\ faults = TRUE
  /\ claimStart = [c \in Consumers |-> 0]
  /\ aged = [s \in Streams |-> {}]
  /\ LockRest
  /\ StoreRest
  /\ fan = NewFan
  /\ calc = NoCalc
  /\ kick = NewKick
  /\ proc = NoProc
  /\ trimmed = NoneTrimmed

\* The invocation, its refresher, the key's lifetime and the invocations of
\* other workers on the same key.
NextKick ==
  \/ KickAcquire
  \/ KickTick
  \/ KickSelect
  \/ KickRefresh
  \/ KickExit
  \/ KickClose
  \/ KickRelease
  \/ KickCancel
  \/ TTLTick(KickKey)
  \/ \E t \in Tokens \ {KickToken} : LockAcquire(t, KickKey)
  \/ \E t \in Tokens \ {KickToken} : LockRelease(t)

SpecKick == InitKick /\ [][NextKick]_vars

\* ------------------------------------------------------- the store client
\* The mutators the pipeline passes to Update.
Mutators == {"persist", "notify", "cancel"}

Apply(mut, j) ==
  IF mut = "persist" THEN PersistResult(j, ObjectKeyForJob("j1"))
  ELSE IF mut = "notify" THEN NotifyMutator(j, 1)
  ELSE CancelMutator(j, 1)

\* InMemoryCompareJobStore.Create: the map entry is assigned.
MemoryCreate(stored, job) == [record |-> job, err |-> "nil"]

\* RedisCompareJobStore.Create: SetNX(...).Err(); the boolean answer of
\* SET NX is dropped, so a key that exists is left alone with no error.
RedisCreate(stored, job) ==
  [record |-> IF stored.Exists THEN stored ELSE job, err |-> "nil"]

StoreFrame ==
  UNCHANGED <<fee, intake, msgs, cursor, pel, inbox, h, lease, orders, notify, cancel, export, replay, faults, claimStart, aged, ttl, holds, lockCall, storeKind, ext>>

\* A write of the key fails the transaction of every client that watches it.
Touched ==
  [v \in Updaters |->
     IF updates[v].pc \in {"get", "exec"} THEN [updates[v] EXCEPT !.dirty = TRUE]
     ELSE updates[v]]

\* CompareJobStore.Create of a fresh record for id.
StoreCreate(id) ==
  LET r == IF storeKind = "memory" THEN MemoryCreate(jobs[id], NewJob)
           ELSE RedisCreate(jobs[id], NewJob)
  IN /\ jobs' = [jobs EXCEPT ![id] = r.record]
     /\ storeCall' = [id |-> id, before |-> jobs[id], err |-> r.err]
     /\ updates' = IF r.record # jobs[id] THEN Touched ELSE updates
     /\ StoreFrame

\* A client calls Update(id, fn).
UpdateBegin(u) ==
  /\ updates[u].pc = "idle"
  /\ \E id \in Jobs, mut \in Mutators :
       updates' = [updates EXCEPT ![u] = [IdleUpdate EXCEPT !.pc = "call", !.id = id, !.mut = mut]]
  /\ UNCHANGED <<jobs, storeCall>>
  /\ StoreFrame

\* InMemoryCompareJobStore.Update: fn runs on the stored record under the
\* store's mutex.
MemoryUpdate(u) ==
  LET id == updates[u].id
  IN /\ storeKind = "memory"
     /\ updates[u].pc = "call"
     /\ jobs' = IF jobs[id].Exists THEN [jobs EXCEPT ![id] = Apply(updates[u].mut, @)]
                ELSE jobs
     /\ updates' = [updates EXCEPT ![u] = [IdleUpdate EXCEPT !.reply =
                  IF jobs[id].Exists THEN "ok" ELSE "absent"]]
     /\ UNCHANGED storeCall
     /\ StoreFrame

\* RedisCompareJobStore.Update: rdb.Watch issues WATCH key.
RedisWatch(u) ==
  /\ storeKind = "redis"
  /\ updates[u].pc \in {"call", "watch"}
  /\ updates' = [updates EXCEPT ![u] = [@ EXCEPT !.pc = "get", !.dirty = FALSE]]
  /\ UNCHANGED <<jobs, storeCall>>
  /\ StoreFrame

\* RedisCompareJobStore.Update: tx.Get; a missing key ends the call with
\* (nil, false, nil), otherwise fn runs on the decoded copy.
RedisGet(u) ==
  LET id == updates[u].id
  IN /\ updates[u].pc = "get"
     /\ updates' = [updates EXCEPT ![u] =
                  IF jobs[id].Exists
                  THEN [@ EXCEPT !.pc = "exec", !.snap = Apply(updates[u].mut, jobs[id])]
                  ELSE [IdleUpdate EXCEPT !.reply = "absent"]]
     /\ UNCHANGED <<jobs, storeCall>>
     /\ StoreFrame

TxNeverFails(dirty) == "ok"

\* MULTI/EXEC under WATCH: TxFailedErr when the key was written since WATCH.
TxOutcome(dirty) == IF dirty THEN "conflict" ELSE "ok"

\* RedisCompareJobStore.Update: tx.TxPipelined(SET) and the retry loop
\* "for i := 0; i < 8; i++".
RedisExec(u) ==
  LET id == updates[u].id
  IN /\ updates[u].pc = "exec"
     /\ IF TxOutcome(updates[u].dirty) = "ok"
        THEN /\ jobs' = [jobs EXCEPT ![id] = updates[u].snap]
             /\ updates' = [Touched EXCEPT ![u] = [IdleUpdate EXCEPT !.reply = "ok"]]
        ELSE /\ UNCHANGED jobs
             /\ updates' = [updates EXCEPT ![u] =
                          IF updates[u].tries + 1 >= MaxRetries
                          THEN [IdleUpdate EXCEPT !.reply = "exceeded"]
                          ELSE [@ EXCEPT !.pc = "watch", !.tries = @ + 1,
                                         !.snap = NoJob, !.dirty = FALSE]]
     /\ UNCHANGED storeCall
     /\ StoreFrame

\* Either store, empty, with clients that create and update one job.
InitStore ==
  /\ jobs = [id \in Jobs |-> NoJob]
  /\ fee = 0
  /\ intake = [id \in Jobs |-> "new"]
  /\ msgs = [s \in Streams |-> << >>]
  /\ cursor = [s \in Streams |-> 0]
  /\ pel = [s \in Streams |-> {}]
  /\ inbox = [c \in Consumers |-> << >>]
  /\ h = [c \in Consumers |-> IdleHandler]
  /\ lease = [k \in LockKeys |-> NoOwner]
  /\ orders = [id \in Jobs |-> 0]
  /\ notify = IdleNotify
  /\ cancel = IdleCancel
  /\ export = NoExport
  /\ replay = NoReplay
  /\ faults = FALSE
  /\ claimStart = [c \in Consumers |-> 0]
  /\ aged = [s \in Streams |-> {}]
  /\ LockRest
  /\ storeKind \in {"redis", "memory"}
  /\ updates = [u \in Updaters |-> IdleUpdate]
  /\ storeCall = NoCreate
  /\ ExtRest

NextStore ==
  \/ \E id \in Jobs : StoreCreate(id)
  \/ \E u \in Updaters : UpdateBegin(u)
  \/ \E u \in Updaters : MemoryUpdate(u)
  \/ \E u \in Updaters : RedisWatch(u)
  \/ \E u \in Updaters : RedisGet(u)
  \/ \E u \in Updaters : RedisExec(u)

SpecStore == InitStore /\ [][NextStore]_vars

\* ------------------------------------------- the paygate stage on its own
\* The compute stage has stored the artifact, enqueued the paygate message
\* and acknowledged its own.
AfterCompute ==
  /\ jobs = [id \in Jobs |-> PersistResult(NewJob, ObjectKeyForJob(id))]
  /\ intake = [id \in Jobs |-> "accepted"]
  /\ msgs = [s \in Streams |-> <<"j1">>]
  /\ cursor = [s \in Streams |-> IF s = "compute" THEN 1 ELSE 0]
  /\ pel = [s \in Streams |-> {}]
  /\ inbox = [c \in Consumers |-> << >>]
  /\ h = [c \in Consumers |-> IdleHandler]
  /\ lease = [k \in LockKeys |-> NoOwner]
  /\ orders = [id \in Jobs |-> 0]
  /\ notify = IdleNotify
  /\ cancel = IdleCancel
  /\ export = NoExport
  /\ replay = NoReplay
  /\ AuxRest

\* The provider's one callback for the order of a job: trade state SUCCESS
\* and the amount the order was created with (CreateNativeOrder gets feeFen).
ProviderNotify ==
  /\ notify.pc = "idle"
  /\ notify.reply = "none"
  /\ \E id \in Jobs, state \in {st \in TradeStates : ToUpper(st) = "SUCCESS"} :
       /\ orders[id] > 0
       /\ notify' = [pc |-> "check", job |-> id, state |-> state,
                     total |-> fee, reply |-> "none"]
  /\ UNCHANGED <<jobs, fee, intake, msgs, cursor, pel, inbox, h, lease, orders, cancel, export, replay, aux>>

\* A paid deployment, with or without failing remote calls.
InitPay ==
  /\ AfterCompute
  /\ fee \in Totals
  /\ faults \in BOOLEAN

\* The paygate consumer and the provider's callback.
NextPay ==
  \/ ReadNew("p1")
  \/ AutoClaim("p1")
  \/ Dispatch("p1")
  \/ PaygateAcquire("p1")
  \/ PaygateLoad("p1")
  \/ PaygateOrder("p1")
  \/ PaygateAwait("p1")
  \/ Return("p1")
  \/ ProviderNotify
  \/ NotifyCheck
  \/ NotifyUpdate

SpecPay == InitPay /\ [][NextPay]_vars

\* The provider delivers its callback again (its retry schedule runs until
\* it has received the acknowledgment): same trade state, same amount.
ProviderRetry ==
  /\ notify.pc = "idle"
  /\ notify.reply # "none"
  /\ \E id \in Jobs, state \in {st \in TradeStates : ToUpper(st) = "SUCCESS"} :
       /\ orders[id] > 0
       /\ notify' = [pc |-> "check", job |-> id, state |-> state,
                     total |-> fee, reply |-> "none"]
  /\ UNCHANGED <<jobs, fee, intake, msgs, cursor, pel, inbox, h, lease, orders, cancel, export, replay, aux>>

\* The paygate consumer and the provider's callback with its retries.
NextRetry ==
  \/ NextPay
  \/ ProviderRetry

SpecRetry == InitPay /\ [][NextRetry]_vars

\* A deployment with any configured fee; remote calls may fail.
InitGate ==
  /\ AfterCompute
  /\ fee \in Fees
  /\ faults = TRUE

\* The paygate consumer, the provider's notifications and the client's
\* cancel requests.
NextGate ==
  \/ ReadNew("p1")
  \/ AutoClaim("p1")
  \/ Dispatch("p1")
  \/ PaygateAcquire("p1")
  \/ PaygateLoad("p1")
  \/ PaygateFree("p1")
  \/ PaygateOrder("p1")
  \/ PaygateAwait("p1")
  \/ Return("p1")
  \/ NotifyReceive
  \/ NotifyCheck
  \/ NotifyUpdate
  \/ CancelGet
  \/ CancelClose
  \/ CancelUpdate

SpecGate == InitGate /\ [][NextGate]_vars

\* ------------------------------------ the paygate stage, duplicate messages
\* The job id is on the paygate stream twice (a compute message that a second
\* worker claimed is handled again after the first worker has returned, and
\* takes the short-circuit); the fee is above 0.
InitRedeliver ==
  /\ jobs = [id \in Jobs |-> PersistResult(NewJob, ObjectKeyForJob(id))]
  /\ fee \in Totals
  /\ intake = [id \in Jobs |-> "accepted"]
  /\ msgs = [s \in Streams |-> IF s = "paygate" THEN <<"j1", "j1">> ELSE <<"j1">>]
  /\ cursor = [s \in Streams |-> IF s = "compute" THEN 1 ELSE 0]
  /\ pel = [s \in Streams |-> {}]
  /\ inbox = [c \in Consumers |-> << >>]
  /\ h = [c \in Consumers |-> IdleHandler]
  /\ lease = [k \in LockKeys |-> NoOwner]
  /\ orders = [id \in Jobs |-> 0]
  /\ notify = IdleNotify
  /\ cancel = IdleCancel
  /\ export = NoExport
  /\ replay = NoReplay
  /\ faults \in BOOLEAN
  /\ AuxRest

\* The paygate consumer alone: no worker is killed and no lease runs out.
NextRedeliver ==
  \/ ReadNew("p1")
  \/ AutoClaim("p1")
  \/ Dispatch("p1")
  \/ PaygateAcquire("p1")
  \/ PaygateLoad("p1")
  \/ PaygateOrder("p1")
  \/ PaygateAwait("p1")
  \/ Return("p1")

SpecRedeliver == InitRedeliver /\ [][NextRedeliver]_vars

\* --------------------------------------------------- the consume loop alone
\* The stream consumer around any handler: the handler is a function of the
\* job id that returns nil, a terminal error or another error, or panics.
\* A poison message is one whose handler panics whenever it runs.
Poison == "poison"
Payloads == Jobs \cup {Poison}

HandlerOutcomes(id) ==
  IF id = Poison THEN {"panic"} ELSE {"nil", "terminal", "transient"}

RecoveredAsTransient(outcome) ==
  IF outcome = "panic" THEN "transient" ELSE outcome

\* Consumer.handleOne: the deferred recover() turns a panic of the handler
\* into Terminal(err).
Recovered(outcome) ==
  IF outcome = "panic" THEN "terminal" ELSE outcome

\* Consumer.handleOne: the handler runs to its return or panics.
Handle(c) ==
  /\ c \in ComputeConsumers
  /\ h[c].pc = "acquire"
  /\ \E outcome \in HandlerOutcomes(h[c].job) :
       h' = [h EXCEPT ![c] = Returned(c, Recovered(outcome))]
  /\ UNCHANGED <<jobs, fee, intake, msgs, cursor, pel, inbox, lease, orders, notify, cancel, export, replay, aux>>

\* The pending ids XAUTOCLAIM examines in one call that starts at cursor
\* start: the first ScanLimit of them in id order.
Scanned(s, start) ==
  LET from == {m \in PendingIds(s) : m >= start}
  IN {m \in from : Cardinality({x \in from : x < m}) < ScanLimit}

NextStartNeverWraps(c, s) ==
  LET beyond == {m \in PendingIds(s) : m >= claimStart[c]} \ Scanned(s, claimStart[c])
  IN IF beyond = {} THEN claimStart[c]
     ELSE CHOOSE m \in beyond : \A x \in beyond : m <= x

\* Consumer.maybeAutoClaim: the cursor XAUTOCLAIM returns, stored in
\* c.claimStart: the first pending id it did not examine, or "0-0" (0) when
\* it reached the end of the pending list.
NextStart(c, s) ==
  LET beyond == {m \in PendingIds(s) : m >= claimStart[c]} \ Scanned(s, claimStart[c])
  IN IF beyond = {} THEN 0
     ELSE CHOOSE m \in beyond : \A x \in beyond : m <= x

\* Consumer.maybeAutoClaim with its cursor and the idle times: XAUTOCLAIM
\* examines the pending list from c.claimStart on and moves the examined
\* entries that have been idle for claimMinIdle to this consumer.  AutoClaim
\* above allows every result of this call, whatever the cursor and the clock.
ScanClaim(c) ==
  LET s == StreamOf(c)
      claimed == Scanned(s, claimStart[c]) \cap aged[s]
  IN /\ h[c].pc = "idle"
     /\ inbox[c] = << >>
     /\ claimStart' = [claimStart EXCEPT ![c] = NextStart(c, s)]
     /\ pel' = [pel EXCEPT ![s] =
                  {p \in @ : p[1] \notin claimed} \cup {<<m, c>> : m \in claimed}]
     /\ aged' = [aged EXCEPT ![s] = @ \ claimed]
     /\ inbox' = [inbox EXCEPT ![c] = SeqOfSet(claimed)]
     /\ UNCHANGED <<jobs, fee, intake, msgs, cursor, h, lease, orders, notify, cancel, export, replay, faults, ttl, holds, lockCall, storeKind, updates, storeCall, ext>>

\* claimMinIdle goes by with no delivery: every pending entry of the stream
\* is now old enough to be claimed.
MinIdlePasses(s) ==
  /\ aged[s] # PendingIds(s)
  /\ aged' = [aged EXCEPT ![s] = PendingIds(s)]
  /\ UNCHANGED <<jobs, fee, intake, msgs, cursor, pel, inbox, h, lease, orders, notify, cancel, export, replay, faults, claimStart, ttl, holds, lockCall, storeKind, updates, storeCall, ext>>

\* LoopLen messages on the compute stream, each for a job or poison.
InitLoop ==
  /\ jobs = [id \in Jobs |-> NoJob]
  /\ fee = 0
  /\ intake = [id \in Jobs |-> "accepted"]
  /\ \E q \in [1..LoopLen -> Payloads] :
       msgs = [s \in Streams |-> IF s = "compute" THEN q ELSE << >>]
  /\ cursor = [s \in Streams |-> 0]
  /\ pel = [s \in Streams |-> {}]
  /\ inbox = [c \in Consumers |-> << >>]
  /\ h = [c \in Consumers |-> IdleHandler]
  /\ lease = [k \in LockKeys |-> NoOwner]
  /\ orders = [id \in Jobs |-> 0]
  /\ notify = IdleNotify
  /\ cancel = IdleCancel
  /\ export = NoExport
  /\ replay = NoReplay
  /\ faults = TRUE
  /\ AuxRest

LoopStep(c) ==
  \/ ReadNew(c)
  \/ ScanClaim(c)
  \/ Dispatch(c)
  \/ Handle(c)
  \/ Return(c)

NextLoop ==
  \/ \E c \in ComputeConsumers : LoopStep(c)
  \/ MinIdlePasses("compute")

SpecLoop == InitLoop /\ [][NextLoop]_vars

\* Consumer c1 keeps running its loop (ConsumeLoop never returns while its
\* context lives, and XREADGROUP blocks for at most 10 s), its handler
\* returns, and the clock advances; consumer c2 may stop at any point.
SpecLoopFair ==
  /\ SpecLoop
  /\ WF_vars(MinIdlePasses("compute"))
  /\ WF_vars(ScanClaim("c1"))
  /\ WF_vars(Dispatch("c1"))
  /\ WF_vars(Handle("c1"))
  /\ WF_vars(Return("c1"))

\* ------------------------------------------------ the stream's length cap
\* A job enqueued after j1.
Later == "later"

\* RedisStreamQueue.Enqueue with its XAddArgs{MaxLen, Approx: true}: XADD
\* appends the entry; when the stream then holds more than MaxLen entries
\* the server may evict the oldest one (approximate trimming evicts whole
\* nodes only, so it may also keep it).  Eviction does not look at the
\* group's pending list.
TrimEnqueue(id) ==
  LET s == "compute"
      n == Len(msgs[s]) + 1
      live == (1..n) \ trimmed[s]
      oldest == CHOOSE m \in live : \A x \in live : m <= x
  IN /\ n <= MaxAdds
     /\ msgs' = [msgs EXCEPT ![s] = Append(@, id)]
     /\ \E evict \in BOOLEAN :
          trimmed' = IF evict /\ Cardinality(live) > StreamMaxLen
                     THEN [trimmed EXCEPT ![s] = @ \cup {oldest}]
                     ELSE trimmed
     /\ UNCHANGED <<jobs, fee, intake, cursor, pel, inbox, h, lease, orders, notify, cancel, export, replay, faults, claimStart, aged, ttl, holds, lockCall, storeKind, updates, storeCall, fan, calc, kick, proc>>

\* Consumer.ConsumeLoop on a stream that is trimmed: XREADGROUP ">" delivers
\* the entries after the group's last-delivered id that the stream still
\* holds.
TrimRead(c) ==
  LET s == StreamOf(c)
      batch == ((cursor[s] + 1)..Len(msgs[s])) \ trimmed[s]
  IN /\ h[c].pc = "idle"
     /\ inbox[c] = << >>
     /\ batch # {}
     /\ cursor' = [cursor EXCEPT ![s] = CHOOSE m \in batch : \A x \in batch : x <= m]
     /\ pel' = [pel EXCEPT ![s] = @ \cup {<<m, c>> : m \in batch}]
     /\ inbox' = [inbox EXCEPT ![c] = SeqOfSet(batch)]
     /\ UNCHANGED <<jobs, fee, intake, msgs, h, lease, orders, notify, cancel, export, replay, aux, ext>>

\* Consumer.maybeAutoClaim on a stream that is trimmed: XAUTOCLAIM moves the
\* idle pending entries the stream still holds to this consumer; a pending
\* id whose entry has been evicted has no jobId to hand to handleOne and
\* leaves the pending list (the server drops it, or handleOne acks the
\* message without a jobId).
TrimClaim(c) ==
  LET s == StreamOf(c)
      idle == PendingIds(s) \cap aged[s]
      claimed == idle \ trimmed[s]
      gone == idle \cap trimmed[s]
  IN /\ h[c].pc = "idle"
     /\ inbox[c] = << >>
     /\ idle # {}
     /\ pel' = [pel EXCEPT ![s] =
                  {p \in @ : p[1] \notin idle} \cup {<<m, c>> : m \in claimed}]
     /\ aged' = [aged EXCEPT ![s] = @ \ idle]
     /\ inbox' = [inbox EXCEPT ![c] = SeqOfSet(claimed)]
     /\ UNCHANGED <<jobs, fee, intake, msgs, cursor, h, lease, orders, notify, cancel, export, replay, faults, claimStart, ttl, holds, lockCall, storeKind, updates, storeCall, ext>>

\* The job's record is stored and its message is the stream's only entry,
\* not yet read.
InitTrim ==
  /\ jobs = [id \in Jobs |-> NewJob]
  /\ fee = 0
  /\ intake = [id \in Jobs |-> "accepted"]
  /\ msgs = [s \in Streams |-> IF s = "compute" THEN <<"j1">> ELSE << >>]
  /\ cursor = [s \in Streams |-> 0]
  /\ pel = [s \in Streams |-> {}]
  /\ inbox = [c \in Consumers |-> << >>]
  /\ h = [c \in Consumers |-> IdleHandler]
  /\ lease = [k \in LockKeys |-> NoOwner]
  /\ orders = [id \in Jobs |-> 0]
  /\ notify = IdleNotify
  /\ cancel = IdleCancel
  /\ export = NoExport
  /\ replay = NoReplay
  /\ faults = TRUE
  /\ AuxRest

NextTrim ==
  \/ TrimEnqueue(Later)
  \/ TrimRead("c1")
  \/ TrimClaim("c1")
  \/ Dispatch("c1")
  \/ Handle("c1")
  \/ Return("c1")
  \/ MinIdlePasses("compute")

SpecTrim == InitTrim /\ [][NextTrim]_vars

\* The consumer keeps running its loop, its handler returns and the clock
\* advances (as in SpecLoopFair); producers may stop at any point.
SpecTrimFair ==
  /\ SpecTrim
  /\ WF_vars(MinIdlePasses("compute"))
  /\ WF_vars(TrimRead("c1"))
  /\ WF_vars(TrimClaim("c1"))
  /\ WF_vars(Dispatch("c1"))
  /\ WF_vars(Handle("c1"))
  /\ WF_vars(Return("c1"))

\* ------------------------------------------------- the consumer's fan-out
\* Consumer.SetConcurrency: the capacity of the channel it makes, 0 for nil.
Capacity(n) == IF n <= 1 THEN 0 ELSE n

\* cmd/compare-worker: SetConcurrency is called once, before ConsumeLoop.
SetConcurrency(n) ==
  /\ fan.at = "new"
  /\ fan' = [fan EXCEPT !.n = n, !.cap = Capacity(n), !.at = "set"]
  /\ UNCHANGED <<pipeline, faults, claimStart, aged, ttl, holds, lockCall, storeKind, updates, storeCall, calc, kick, proc, trimmed>>

\* ConsumeLoop is entered; each iteration calls maybeAutoClaim, then
\* XREADGROUP.
FanLoop ==
  /\ fan.at \in {"new", "set"}
  /\ fan' = [fan EXCEPT !.at = "claim"]
  /\ UNCHANGED <<pipeline, faults, claimStart, aged, ttl, holds, lockCall, storeKind, updates, storeCall, calc, kick, proc, trimmed>>

\* maybeAutoClaim: XAUTOCLAIM answers with k messages (none when it is not
\* due or fails).
FanClaim ==
  /\ fan.at = "claim" /\ fan.batch = 0 /\ ~fan.busy
  /\ \E k \in 0..fan.left :
       fan' = [fan EXCEPT !.batch = k, !.left = @ - k, !.at = "read"]
  /\ UNCHANGED <<pipeline, faults, claimStart, aged, ttl, holds, lockCall, storeKind, updates, storeCall, calc, kick, proc, trimmed>>

\* ConsumeLoop: XREADGROUP answers with k new messages (none on redis.Nil or
\* an error).
FanRead ==
  /\ fan.at = "read" /\ fan.batch = 0 /\ ~fan.busy
  /\ \E k \in 0..fan.left :
       fan' = [fan EXCEPT !.batch = k, !.left = @ - k, !.at = "claim"]
  /\ UNCHANGED <<pipeline, faults, claimStart, aged, ttl, holds, lockCall, storeKind, updates, storeCall, calc, kick, proc, trimmed>>

SendNeverBlocks(tokens, cap) == TRUE

\* A send on the buffered channel c.concur proceeds when the buffer has room
\* and blocks otherwise.
CanSend(tokens, cap) == tokens < cap

\* c.concur == nil: the loop calls handleOne itself for the next message of
\* the reply.
FanCall ==
  /\ fan.at \in {"claim", "read"} /\ fan.cap = 0
  /\ fan.batch > 0 /\ ~fan.busy
  /\ fan' = [fan EXCEPT !.batch = @ - 1, !.busy = TRUE, !.running = @ + 1]
  /\ UNCHANGED <<pipeline, faults, claimStart, aged, ttl, holds, lockCall, storeKind, updates, storeCall, calc, kick, proc, trimmed>>

\* c.concur == nil: handleOne returns to the loop.
FanReturn ==
  /\ fan.busy
  /\ fan' = [fan EXCEPT !.busy = FALSE, !.running = @ - 1]
  /\ UNCHANGED <<pipeline, faults, claimStart, aged, ttl, holds, lockCall, storeKind, updates, storeCall, calc, kick, proc, trimmed>>

\* c.concur <- struct{}{} and the go statement for the next message of the
\* reply.
FanSend ==
  /\ fan.at \in {"claim", "read"} /\ fan.cap > 0
  /\ fan.batch > 0
  /\ CanSend(fan.tokens, fan.cap)
  /\ fan' = [fan EXCEPT !.batch = @ - 1, !.tokens = @ + 1, !.started = @ + 1]
  /\ UNCHANGED <<pipeline, faults, claimStart, aged, ttl, holds, lockCall, storeKind, updates, storeCall, calc, kick, proc, trimmed>>

\* A goroutine enters handleOne.
FanStart ==
  /\ fan.started > 0
  /\ fan' = [fan EXCEPT !.started = @ - 1, !.running = @ + 1]
  /\ UNCHANGED <<pipeline, faults, claimStart, aged, ttl, holds, lockCall, storeKind, updates, storeCall, calc, kick, proc, trimmed>>

\* handleOne returns in a goroutine (it recovers the handler's panics).
FanFinish ==
  /\ ~fan.busy /\ fan.running > 0
  /\ fan' = [fan EXCEPT !.running = @ - 1, !.ending = @ + 1]
  /\ UNCHANGED <<pipeline, faults, claimStart, aged, ttl, holds, lockCall, storeKind, updates, storeCall, calc, kick, proc, trimmed>>

\* The goroutine's deferred <-c.concur.
FanReceive ==
  /\ fan.ending > 0
  /\ fan' = [fan EXCEPT !.ending = @ - 1, !.tokens = @ - 1]
  /\ UNCHANGED <<pipeline, faults, claimStart, aged, ttl, holds, lockCall, storeKind, updates, storeCall, calc, kick, proc, trimmed>>

InitFan ==
  /\ PipelineRest
  /\ faults = FALSE
  /\ claimStart = [c \in Consumers |-> 0]
  /\ aged = [s \in Streams |-> {}]
  /\ LockRest
  /\ StoreRest
  /\ fan = NewFan
  /\ calc = NoCalc
  /\ kick = NoKick
  /\ proc = NoProc
  /\ trimmed = NoneTrimmed

NextFan ==
  \/ \E n \in 0..MaxFanout : SetConcurrency(n)
  \/ FanLoop
  \/ FanClaim
  \/ FanRead
  \/ FanCall
  \/ FanReturn
  \/ FanSend
  \/ FanStart
  \/ FanFinish
  \/ FanReceive

SpecFan == InitFan /\ [][NextFan]_vars

\* ------------------------------------------- the worker process stopping
\* cmd/compare-worker: main runs ConsumeLoop with the context of
\* signalContext and returns when the loop returns.  proc.ctx is that
\* context, proc.at says whether the loop runs ("loop"), has returned
\* ("returned") or the process is gone ("exited"); proc.killed counts the
\* handler goroutines that were started or running when the process went.
ProcFrame ==
  UNCHANGED <<pipeline, faults, claimStart, aged, ttl, holds, lockCall, storeKind, updates, storeCall, fan, calc, kick, trimmed>>

\* signalContext: the first SIGINT or SIGTERM cancels the context.
ProcSignal ==
  /\ proc.at # "exited"
  /\ proc.ctx = "live"
  /\ proc' = [proc EXCEPT !.ctx = "done"]
  /\ ProcFrame

\* ConsumeLoop: the select at the top of an iteration returns ctx.Err().
ProcReturn ==
  /\ proc.at = "loop" /\ proc.ctx = "done"
  /\ fan.at = "claim" /\ fan.batch = 0 /\ ~fan.busy
  /\ proc' = [proc EXCEPT !.at = "returned"]
  /\ ProcFrame

\* main: ConsumeLoop returned context.Canceled, main returns and the process
\* ends with whatever goroutines it has.
ProcExit ==
  /\ proc.at = "returned"
  /\ proc' = [proc EXCEPT !.at = "exited", !.killed = fan.started + fan.running]
  /\ ProcFrame

\* The consumer of SpecFan inside the process: the loop runs until it
\* returns, its goroutines until the process ends; a call on Redis made
\* with the cancelled context returns an error and no message.
NextShutdown ==
  \/ \E n \in 0..MaxFanout : proc.at = "loop" /\ SetConcurrency(n)
  \/ proc.at = "loop" /\ FanLoop
  \/ proc.at = "loop" /\ proc.ctx = "live" /\ FanClaim
  \/ proc.at = "loop" /\ FanRead /\ (proc.ctx = "done" => fan'.batch = 0)
  \/ proc.at = "loop" /\ FanCall
  \/ proc.at = "loop" /\ FanReturn
  \/ proc.at = "loop" /\ FanSend
  \/ proc.at # "exited" /\ FanStart
  \/ proc.at # "exited" /\ FanFinish
  \/ proc.at # "exited" /\ FanReceive
  \/ ProcSignal
  \/ ProcReturn
  \/ ProcExit

SpecShutdown == InitFan /\ [][NextShutdown]_vars

\* ------------------------------------------------------ scalar normalization
\* Cell values are sequences of one-character strings, so that trimming,
\* lower-casing and rendering are computed and not assumed.
Chars == {" ", "-", "+", "0", "1", ".", "n", "a", "N"}

Digits == {"0", "1", "2", "3", "4", "5", "6", "7", "8", "9"}

DigitVal(c) ==
  CASE c = "0" -> 0 [] c = "1" -> 1 [] c = "2" -> 2 [] c = "3" -> 3
    [] c = "4" -> 4 [] c = "5" -> 5 [] c = "6" -> 6 [] c = "7" -> 7
    [] c = "8" -> 8 [] c = "9" -> 9

RECURSIVE TrimLeft(_)
TrimLeft(s) ==
  IF s # << >> /\ Head(s) = " " THEN TrimLeft(Tail(s)) ELSE s

RECURSIVE TrimRight(_)
TrimRight(s) ==
  IF s # << >> /\ s[Len(s)] = " "
  THEN TrimRight(SubSeq(s, 1, Len(s) - 1)) ELSE s

TrimOneSpace(s) ==
  LET l == IF s # << >> /\ Head(s) = " " THEN Tail(s) ELSE s
  IN IF l # << >> /\ l[Len(l)] = " " THEN SubSeq(l, 1, Len(l) - 1) ELSE l

\* strings.TrimSpace
TrimSpace(s) == TrimRight(TrimLeft(s))

LowerChar(c) ==
  CASE c = "N" -> "n" [] c = "A" -> "a" [] c = "T" -> "t" [] c = "O" -> "o"
    [] c = "E" -> "e" [] c = "I" -> "i" [] c = "D" -> "d" [] OTHER -> c

\* strings.ToLower
ToLower(s) == [i \in 1..Len(s) |-> LowerChar(s[i])]

\* The part of s after an optional sign.
Unsigned(s) ==
  IF s # << >> /\ Head(s) \in {"+", "-"} THEN Tail(s) ELSE s

\* The length of the longest prefix of s made of characters of set.
RECURSIVE Run(_, _)
Run(s, set) ==
  IF s # << >> /\ Head(s) \in set THEN 1 + Run(Tail(s), set) ELSE 0

\* looksLikeIntegerFloatString: ^[+-]?\d+(\.0+)?$ with the fraction present.
looksLikeIntegerFloatString(s) ==
  LET body == Unsigned(s)
      d == Run(body, Digits)
      rest == SubSeq(body, d + 1, Len(body))
  IN /\ s # << >>
     /\ body # << >>
     /\ d > 0
     /\ rest # << >>
     /\ Head(rest) = "."
     /\ Run(Tail(rest), {"0"}) > 0
     /\ Run(Tail(rest), {"0"}) = Len(Tail(rest))

\* A decimal magnitude without its leading zeros (empty for zero).
StripZeros(ds) == SubSeq(ds, Run(ds, {"0"}) + 1, Len(ds))

\* strconv.ParseFloat on a string of the form above: the sign and the
\* magnitude of its integer part, kept as decimal digits (the values at
\* stake are beyond the integers of the checker; every integer up to 9e15 is
\* a float64, so the comparisons below are those of the parsed value).
ParseFloat(s) ==
  LET body == Unsigned(s)
  IN [neg |-> Head(s) = "-",
      mag |-> StripZeros(SubSeq(body, 1, Run(body, Digits)))]

\* 9e15, the bound of normalizeScalarForCompare.
Limit9e15 ==
  <<"9", "0", "0", "0", "0", "0", "0", "0", "0", "0", "0", "0", "0", "0", "0", "0">>

\* a > b for magnitudes of the same length.
RECURSIVE DigitsGreater(_, _)
DigitsGreater(a, b) ==
  IF a = << >> THEN FALSE
  ELSE IF DigitVal(Head(a)) # DigitVal(Head(b))
       THEN DigitVal(Head(a)) > DigitVal(Head(b))
       ELSE DigitsGreater(Tail(a), Tail(b))

\* f > 9e15 || f < -9e15
OutOfRange(f) ==
  \/ Len(f.mag) > Len(Limit9e15)
  \/ Len(f.mag) = Len(Limit9e15) /\ DigitsGreater(f.mag, Limit9e15)

\* strconv.FormatInt(int64(f), 10)
FormatInt(f) ==
  IF f.mag = << >> THEN <<"0">>
  ELSE IF f.neg THEN <<"-">> \o f.mag ELSE f.mag

NullLiterals == {<<"n", "a", "n">>, <<"n", "a", "t">>, <<"n", "o", "n", "e">>}

\* normalizeScalarForCompare
normalizeScalarForCompare(v) ==
  LET s == TrimSpace(v)
  IN IF s = << >> THEN << >>
     ELSE IF ToLower(s) \in NullLiterals THEN << >>
     ELSE IF looksLikeIntegerFloatString(s) /\ ~OutOfRange(ParseFloat(s))
          THEN FormatInt(ParseFloat(s))
          ELSE s

\* All strings over Chars of length n, and of length at most n.
StringsOfLen(n) == [1..n -> Chars]
StringsUpTo(n) == UNION {StringsOfLen(k) : k \in 0..n}

\* Values at and around the bound, with a sign and a fraction: 9e15,
\* 9e15 + 1, 10^16 and 9e15 - 1 with a leading zero.
NearLimit ==
  {Limit9e15,
   SubSeq(Limit9e15, 1, 15) \o <<"1">>,
   <<"1">> \o [i \in 1..16 |-> "0"],
   <<"0", "8">> \o [i \in 1..15 |-> "9"]}

LargeMagnitudes ==
  {sign \o m \o frac :
     sign \in {<< >>, <<"-">>, <<"+">>},
     m \in NearLimit,
     frac \in {<<".", "0">>, <<".", "0", "0">>, << >>}}

\* The null literals in some spellings, with and without blanks around.
Literals ==
  {pad \o l \o pad :
     pad \in {<< >>, <<" ">>},
     l \in NullLiterals \cup {<<"N", "a", "T">>, <<"N", "o", "n", "e">>,
                              <<"N", "A", "N">>, <<"n", "a", "n", "a">>}}

\* Values that take every step of the function at once.
Padded == {<<" ", "+", "1", ".", "0", "0">>, <<" ", "-", "0", ".", "0", " ">>}

ScalarInputs == StringsUpTo(MaxLen) \cup LargeMagnitudes \cup Literals \cup Padded

\* One value, normalized and then normalized again: calc.out holds the
\* results so far.
InitNormalize ==
  /\ PipelineRest
  /\ faults = FALSE
  /\ claimStart = [c \in Consumers |-> 0]
  /\ aged = [s \in Streams |-> {}]
  /\ LockRest
  /\ StoreRest
  /\ fan = NewFan
  /\ kick = NoKick
  /\ proc = NoProc
  /\ trimmed = NoneTrimmed
  /\ \E v \in ScalarInputs : calc = [fn |-> "normalize", in |-> v, out |-> << >>]

Normalize ==
  /\ calc.fn = "normalize"
  /\ Len(calc.out) < 2
  /\ LET arg == IF calc.out = << >> THEN calc.in ELSE calc.out[Len(calc.out)]
     IN calc' = [calc EXCEPT !.out = Append(@, normalizeScalarForCompare(arg))]
  /\ UNCHANGED <<pipeline, faults, claimStart, aged, ttl, holds, lockCall, storeKind, updates, storeCall, fan, kick, proc, trimmed>>

NextNormalize == Normalize

SpecNormalize == InitNormalize /\ [][NextNormalize]_vars

\* ------------------------------------------------------------ header rows
\* strconv.Itoa / the %d verb.
DigitChar(d) ==
  CASE d = 0 -> "0" [] d = 1 -> "1" [] d = 2 -> "2" [] d = 3 -> "3"
    [] d = 4 -> "4" [] d = 5 -> "5" [] d = 6 -> "6" [] d = 7 -> "7"
    [] d = 8 -> "8" [] d = 9 -> "9"

RECURSIVE Itoa(_)
Itoa(n) ==
  IF n < 10 THEN <<DigitChar(n)>>
  ELSE Itoa(n \div 10) \o <<DigitChar(n % 10)>>

\* fmt.Sprintf("Unnamed: %d", i)
Unnamed(i) == <<"U", "n", "n", "a", "m", "e", "d", ":", " ">> \o Itoa(i)

\* normalizeHeaders, first loop: the trimmed cell, or "Unnamed: i" for a
\* blank cell at zero-based index i.
Named(raw) ==
  [i \in 1..Len(raw) |->
     IF TrimSpace(raw[i]) = << >> THEN Unnamed(i - 1) ELSE TrimSpace(raw[i])]

\* The number of earlier cells of hd with the name of cell i: the value of
\* seen[name] after the increment when cell i is reached.
Earlier(hd, i) == Cardinality({j \in 1..(i - 1) : hd[j] = hd[i]})

\* normalizeHeaders, second loop: fmt.Sprintf("%s.%d", name, c) for a name
\* seen before, the name itself otherwise.
Suffixed(hd, i) ==
  IF Earlier(hd, i) = 0 THEN hd[i]
  ELSE hd[i] \o <<".">> \o Itoa(Earlier(hd, i))

\* normalizeHeaders
normalizeHeaders(raw) ==
  LET hd == Named(raw)
  IN [i \in 1..Len(raw) |-> Suffixed(hd, i)]

\* The elements of s, in order, that are not in set.
RECURSIVE Without(_, _)
Without(s, set) ==
  IF s = << >> THEN << >>
  ELSE IF Head(s) \in set THEN Without(Tail(s), set)
       ELSE <<Head(s)>> \o Without(Tail(s), set)

Elems(s) == {s[i] : i \in 1..Len(s)}

Distinct(s) == \A i, j \in 1..Len(s) : s[i] = s[j] => i = j

\* orderedUnionCols, second loop: the columns of h2 appended to out, each
\* once (seen), without the key.
RECURSIVE AppendUnseen(_, _, _)
AppendUnseen(out, h2, key) ==
  IF h2 = << >> THEN out
  ELSE IF Head(h2) = key \/ Head(h2) \in Elems(out)
       THEN AppendUnseen(out, Tail(h2), key)
       ELSE AppendUnseen(Append(out, Head(h2)), Tail(h2), key)

\* orderedUnionCols: every column of h1 but the key (each is in set), then
\* the columns of h2 not yet in out.
orderedUnionCols(h1, h2, key) ==
  AppendUnseen(Without(h1, {key}), h2, key)

\* indexOfHeader: the one-based index of the first header equal to name,
\* 0 when there is none.
indexOfHeader(headers, name) ==
  IF name \in Elems(headers)
  THEN CHOOSE i \in 1..Len(headers) :
         headers[i] = name /\ \A j \in 1..(i - 1) : headers[j] # name
  ELSE 0

\* The cells of a header row: blank, a name, a name with a blank before it,
\* names that look like the ones the function makes up.
RawNames ==
  {<< >>, <<"A">>, <<" ", "A">>, <<"A", ".", "1">>, <<"B">>, Unnamed(0)}

RawRows == UNION {[1..n -> RawNames] : n \in 0..MaxCols}

\* The header rows of the two files as read from the sheets; calc.h1 and
\* calc.h2 are the headers after normalizeHeaders, calc.cols the columns of
\* the Changed sheet for the key column calc.key.
InitHeaders ==
  /\ PipelineRest
  /\ faults = FALSE
  /\ claimStart = [c \in Consumers |-> 0]
  /\ aged = [s \in Streams |-> {}]
  /\ LockRest
  /\ StoreRest
  /\ fan = NewFan
  /\ kick = NoKick
  /\ proc = NoProc
  /\ trimmed = NoneTrimmed
  /\ \E r1 \in RawRows, r2 \in RawRows :
       calc = [fn |-> "headers", pc |-> "file1", raw1 |-> r1, raw2 |-> r2,
               h1 |-> << >>, h2 |-> << >>, key |-> << >>, cols |-> << >>]

\* loadKeyedSheetXLSX on file 1: the header row.
ReadHeaders1 ==
  /\ calc.fn = "headers" /\ calc.pc = "file1"
  /\ calc' = [calc EXCEPT !.h1 = normalizeHeaders(calc.raw1), !.pc = "file2"]
  /\ UNCHANGED <<pipeline, faults, claimStart, aged, ttl, holds, lockCall, storeKind, updates, storeCall, fan, kick, proc, trimmed>>

\* loadKeyedSheetXLSX on file 2: the header row.
ReadHeaders2 ==
  /\ calc.fn = "headers" /\ calc.pc = "file2"
  /\ calc' = [calc EXCEPT !.h2 = normalizeHeaders(calc.raw2), !.pc = "union"]
  /\ UNCHANGED <<pipeline, faults, claimStart, aged, ttl, holds, lockCall, storeKind, updates, storeCall, fan, kick, proc, trimmed>>

\* compareArtifactsFromMaps: the key is a column of file 1 (the one guessed)
\* that file 2 has too, as loadKeyedSheetXLSX requires of both.
UnionCols ==
  /\ calc.fn = "headers" /\ calc.pc = "union"
  /\ \E k \in Elems(calc.h1) :
       /\ indexOfHeader(calc.h2, k) > 0
       /\ calc' = [calc EXCEPT !.key = k, !.pc = "done",
                               !.cols = orderedUnionCols(calc.h1, calc.h2, k)]
  /\ UNCHANGED <<pipeline, faults, claimStart, aged, ttl, holds, lockCall, storeKind, updates, storeCall, fan, kick, proc, trimmed>>

NextHeaders ==
  \/ ReadHeaders1
  \/ ReadHeaders2
  \/ UnionCols

SpecHeaders == InitHeaders /\ [][NextHeaders]_vars

\* ---------------------------------------------------- key column inference
\* primaryKeyCandidates.  A Chinese character is written as one element
\* named by its reading: 编号 is <<"bian", "hao">>.
primaryKeyCandidates ==
  << <<"i", "d">>, <<"bian", "hao">>, <<"bian", "ma">>,
     <<"zi", "chan", "bian", "hao">>, <<"zi", "chan", "bian", "ma">>,
     <<"xu", "hao">>, <<"zi", "chan", "hao">>, <<"c", "o", "d", "e">>,
     <<"n", "o">>, <<"xu", "lie", "hao">> >>

\* strings.Contains
Contains(s, sub) ==
  \E i \in 1..(Len(s) - Len(sub) + 1) : SubSeq(s, i, i + Len(sub) - 1) = sub

Letters == {"a", "b", "x", "i", "d", "n", "o", "I", "D", "bian", "hao", "zi", "chan"}

\* isAlnumUnicode
isAlnumUnicode(s) ==
  s # << >> /\ \A i \in 1..Len(s) : s[i] \in Letters \cup Digits

\* isIntegerLikeString
isIntegerLikeString(s) ==
  /\ s # << >>
  /\ Unsigned(s) # << >>
  /\ \A i \in 1..Len(Unsigned(s)) : Unsigned(s)[i] \in Digits

\* isFiniteIntegerFloatString on values made of a sign, digits and a point:
\* strconv.ParseFloat accepts [+-]?(d+(.d*)? | .d+); the value is an integer
\* when the fraction is all zeros, and must lie within 9e15.
isFiniteIntegerFloatString(s) ==
  LET body == Unsigned(s)
      d == Run(body, Digits)
      rest == SubSeq(body, d + 1, Len(body))
      frac == IF rest # << >> /\ Head(rest) = "." THEN Tail(rest) ELSE << >>
      parsed == /\ body # << >>
                /\ rest = << >> \/ Head(rest) = "."
                /\ Run(frac, Digits) = Len(frac)
                /\ d + Len(frac) > 0
  IN /\ parsed
     /\ Run(frac, {"0"}) = Len(frac)
     /\ ~OutOfRange([neg |-> Head(s) = "-", mag |-> StripZeros(SubSeq(body, 1, d))])

KeyLike(v) ==
  isIntegerLikeString(v) \/ isFiniteIntegerFloatString(v) \/ isAlnumUnicode(v)

\* GuessPrimaryKeyColumn: the rows it looks at.
Sampled(rows) ==
  SubSeq(rows, 1, IF Len(rows) < CheckRows THEN Len(rows) ELSE CheckRows)

\* GuessPrimaryKeyColumn: the trimmed values of column c in the sampled rows.
Values(rows, c) ==
  [i \in 1..Len(Sampled(rows)) |-> TrimSpace(Sampled(rows)[i][c])]

\* GuessPrimaryKeyColumn: a column is skipped when no row is sampled, a
\* sampled value is empty or a sampled value repeats.
Qualifies(rows, c) ==
  /\ Len(Sampled(rows)) > 0
  /\ \A i \in 1..Len(Values(rows, c)) : Values(rows, c)[i] # << >>
  /\ Distinct(Values(rows, c))

KeywordScoreOnce(name) ==
  IF \E k \in 1..Len(primaryKeyCandidates) :
       Contains(ToLower(name), ToLower(primaryKeyCandidates[k]))
  THEN 10 ELSE 0

\* GuessPrimaryKeyColumn: score += 10 for each keyword the header contains.
KeywordScore(name) ==
  10 * Cardinality({k \in 1..Len(primaryKeyCandidates) :
         Contains(ToLower(name), ToLower(primaryKeyCandidates[k]))})

\* GuessPrimaryKeyColumn: the score of a column that is not skipped.
Score(headers, rows, c) ==
  KeywordScore(headers[c])
    + (IF \A i \in 1..Len(Values(rows, c)) : KeyLike(Values(rows, c)[i])
       THEN 5 ELSE 0)

\* GuessPrimaryKeyColumn: the loop over the columns from c on, with the best
\* column (0: none) and its score so far.
RECURSIVE GuessFrom(_, _, _, _, _)
GuessFrom(headers, rows, c, bestCol, bestScore) ==
  IF c > Len(headers) THEN bestCol
  ELSE IF Qualifies(rows, c) /\ Score(headers, rows, c) > bestScore
       THEN GuessFrom(headers, rows, c + 1, c, Score(headers, rows, c))
       ELSE GuessFrom(headers, rows, c + 1, bestCol, bestScore)

\* GuessPrimaryKeyColumn: the name of the column and whether there is one.
GuessPrimaryKeyColumn(headers, rows) ==
  LET best == GuessFrom(headers, rows, 1, 0, -1)
  IN IF best = 0 THEN [col |-> << >>, ok |-> FALSE]
     ELSE [col |-> headers[best], ok |-> TRUE]

\* Header names with no, one and two keywords in them.
HeaderNames ==
  {<<"x">>, <<"I", "D">>, <<"bian", "hao">>, <<"zi", "chan", "bian", "hao">>}

\* Cell values: blank, integers, an integer float, a word, a value that is
\* not key-like, a value that repeats another once trimmed.
GuessCells ==
  {<< >>, <<"1">>, <<"2">>, <<"1", ".", "0">>, <<"a">>, <<"a", "-">>, <<" ", "1">>}

\* A table of one column with n rows 1, 2, .. and a last row v.
Counting(n, v) == [i \in 1..n |-> IF i = n THEN <<v>> ELSE <<Itoa(i)>>]

\* Tables of one column with more rows than are sampled, the last one
\* blank, a repeat or fresh.
LongTables ==
  {[headers |-> <<hn>>, rows |-> Counting(CheckRows + 1, v)] :
     hn \in HeaderNames, v \in {<< >>, <<"1">>, <<"9">>}}

NewGuess(headers, rows) ==
  [fn |-> "guess", pc |-> "peek", headers |-> headers, rows |-> rows,
   col |-> << >>, ok |-> FALSE]

\* A table of up to MaxCols - 1 columns and MaxRows rows, or a long one.
InitGuess ==
  /\ PipelineRest
  /\ faults = FALSE
  /\ claimStart = [c \in Consumers |-> 0]
  /\ aged = [s \in Streams |-> {}]
  /\ LockRest
  /\ StoreRest
  /\ fan = NewFan
  /\ kick = NoKick
  /\ proc = NoProc
  /\ trimmed = NoneTrimmed
  /\ \/ \E n \in 1..(MaxCols - 1), m \in 0..MaxRows :
          \E hs \in [1..n -> HeaderNames], rs \in [1..m -> [1..n -> GuessCells]] :
            calc = NewGuess(hs, rs)
     \/ \E t \in LongTables : calc = NewGuess(t.headers, t.rows)

\* loadKeyedSheetXLSX with allowGuess: the key column of file 1.
Guess ==
  /\ calc.fn = "guess" /\ calc.pc = "peek"
  /\ LET g == GuessPrimaryKeyColumn(calc.headers, calc.rows)
     IN calc' = [calc EXCEPT !.pc = "done", !.col = g.col, !.ok = g.ok]
  /\ UNCHANGED <<pipeline, faults, claimStart, aged, ttl, holds, lockCall, storeKind, updates, storeCall, fan, kick, proc, trimmed>>

NextGuess == Guess

SpecGuess == InitGuess /\ [][NextGuess]_vars

\* ----------------------------------------------------------- the comparison
\* GenerateCompareExportXLSX on two sheets given by their normalized headers
\* and their data rows (padRow: every row has one cell per header).
KeyOfRaw(row, keyIdx) == row[keyIdx]

\* loadKeyedSheetXLSX.add / buildKeyRowMap: the key of a row.
KeyOf(row, keyIdx) == normalizeScalarForCompare(row[keyIdx])

\* loadKeyedSheetXLSX.add / buildKeyRowMap over the rows in order: byKey is
\* rowsByKey, dups the examples, seenDup the repeated keys met so far.  A row
\* with a blank key is dropped, a row with a key already in the map is
\* dropped and its key noted, up to MaxExamples of them.
RECURSIVE AddRows(_, _, _, _, _)
AddRows(rows, keyIdx, byKey, dups, seenDup) ==
  IF rows = << >> THEN [byKey |-> byKey, dups |-> dups]
  ELSE LET k == KeyOf(Head(rows), keyIdx)
       IN IF TrimSpace(k) = << >>
          THEN AddRows(Tail(rows), keyIdx, byKey, dups, seenDup)
          ELSE IF k \in DOMAIN byKey
               THEN AddRows(Tail(rows), keyIdx, byKey,
                            IF k \notin seenDup /\ Len(dups) < MaxExamples
                            THEN Append(dups, k) ELSE dups,
                            seenDup \cup {k})
               ELSE AddRows(Tail(rows), keyIdx, byKey @@ (k :> Head(rows)),
                            dups, seenDup)

\* The empty map.
NoRows == [k \in {} |-> << >>]

\* loadKeyedSheetXLSX: the key column (guessed from the first CheckRows rows
\* for file 1, given for file 2), then the rows by key.
loadKeyedSheetXLSX(headers, rows, key, allowGuess) ==
  LET g == GuessPrimaryKeyColumn(headers, rows)
      keyUsed == IF allowGuess THEN g.col ELSE TrimSpace(key)
      keyIdx == indexOfHeader(headers, keyUsed)
  IN IF (allowGuess /\ ~g.ok) \/ keyUsed = << >> \/ keyIdx = 0
     THEN [err |-> TRUE, key |-> keyUsed, byKey |-> NoRows, dups |-> << >>]
     ELSE [err |-> FALSE, key |-> keyUsed] @@ AddRows(rows, keyIdx, NoRows, << >>, { })

\* headerIndexMap: the index of the last header with this name, 0 for none
\* (alignedColumnIndices: -1).
headerIndexMap(headers, name) ==
  IF name \in Elems(headers)
  THEN CHOOSE i \in 1..Len(headers) :
         headers[i] = name /\ \A j \in (i + 1)..Len(headers) : headers[j] # name
  ELSE 0

\* writeDiffSideBySideStream: the cell of a row under the column, blank when
\* the file has no such column.
CellAt(row, idx) == IF idx >= 1 /\ idx <= Len(row) THEN row[idx] ELSE << >>

CellsDifferRaw(va, vb) == va # vb

\* writeDiffSideBySideStream: isDiff.  The fingerprints are those of the
\* normalized values, so they differ only when these do.
CellsDiffer(va, vb) ==
  normalizeScalarForCompare(va) # normalizeScalarForCompare(vb)

\* writeDiffSideBySideStream: hasDiff for a common key.
hasDiff(cols, h1, h2, left, right) ==
  \E i \in 1..Len(cols) :
    CellsDiffer(CellAt(left, headerIndexMap(h1, cols[i])),
                CellAt(right, headerIndexMap(h2, cols[i])))

\* compareArtifactsFromMaps and the three sheet writers: the rows of the
\* Added and Removed sheets by key, and the keys of the Changed sheet.
Sheets(h1, h2, m1, m2, key) ==
  LET cols == orderedUnionCols(h1, h2, key)
      only1 == DOMAIN m1 \ DOMAIN m2
      only2 == DOMAIN m2 \ DOMAIN m1
      common == DOMAIN m1 \cap DOMAIN m2
  IN [added |-> [k \in only2 |-> m2[k]],
      removed |-> [k \in only1 |-> m1[k]],
      changed |-> {k \in common : hasDiff(cols, h1, h2, m1[k], m2[k])}]

ID == <<"I", "D">>

Headers1 == {<<ID, <<"a">>>>}
Headers2 == {<< <<"a">>, ID>>, <<ID, <<"b">>>>}

KeyCells1 == {<< >>, <<"1">>, <<"1", ".", "0">>, <<"2">>}
KeyCells2 == {<< >>, <<"n", "a", "n">>, <<"1", ".", "0">>, <<"3">>}
OtherCells == {<< >>, <<"1">>, <<"1", ".", "0">>}

\* The rows of a table under these headers: the cell under ID is a key cell.
RowsUnder(hs, keyCells) ==
  {r \in [1..Len(hs) -> keyCells \cup OtherCells] :
     \A i \in 1..Len(hs) :
       r[i] \in (IF hs[i] = ID THEN keyCells ELSE OtherCells)}

\* A sheet with MaxExamples + 1 keys, each in two rows (n and n.0).
Repeating ==
  [i \in 1..(2 * (MaxExamples + 1)) |->
     IF i <= MaxExamples + 1 THEN <<Itoa(i), << >>>>
     ELSE <<Itoa(i - MaxExamples - 1) \o <<".", "0">>, << >>>>]

NewDiff(h1, r1, h2, r2) ==
  [fn |-> "compare", pc |-> "file1", h1 |-> h1, rows1 |-> r1, h2 |-> h2,
   rows2 |-> r2, key |-> << >>, m1 |-> NoRows, m2 |-> NoRows, err |-> "none",
   examples |-> << >>, workbook |-> FALSE, added |-> NoRows,
   removed |-> NoRows, changed |-> {}]

InitDiff ==
  /\ PipelineRest
  /\ faults = FALSE
  /\ claimStart = [c \in Consumers |-> 0]
  /\ aged = [s \in Streams |-> {}]
  /\ LockRest
  /\ StoreRest
  /\ fan = NewFan
  /\ kick = NoKick
  /\ proc = NoProc
  /\ trimmed = NoneTrimmed
  /\ \/ \E h1 \in Headers1, h2 \in Headers2, n1 \in 0..MaxRows, n2 \in 0..MaxRows :
          \E r1 \in [1..n1 -> RowsUnder(h1, KeyCells1)],
             r2 \in [1..n2 -> RowsUnder(h2, KeyCells2)] :
            calc = NewDiff(h1, r1, h2, r2)
     \/ \E h1 \in Headers1 :
          \/ calc = NewDiff(h1, Repeating, h1, << >>)
          \/ calc = NewDiff(h1, <<Repeating[1]>>, h1, Repeating)

\* GenerateCompareExportXLSX: file 1 is read, its key column guessed; a
\* repeated key ends the call with the error that names file 1.
LoadFile1 ==
  /\ calc.fn = "compare" /\ calc.pc = "file1"
  /\ LET s1 == loadKeyedSheetXLSX(calc.h1, calc.rows1, << >>, TRUE)
     IN calc' =
          IF s1.err THEN [calc EXCEPT !.pc = "failed", !.err = "read1"]
          ELSE IF Len(s1.dups) > 0
               THEN [calc EXCEPT !.pc = "failed", !.err = "dup1", !.key = s1.key,
                                 !.examples = s1.dups]
               ELSE [calc EXCEPT !.pc = "file2", !.key = s1.key, !.m1 = s1.byKey]
  /\ UNCHANGED <<pipeline, faults, claimStart, aged, ttl, holds, lockCall, storeKind, updates, storeCall, fan, kick, proc, trimmed>>

\* GenerateCompareExportXLSX: file 2 is read with the key column of file 1.
LoadFile2 ==
  /\ calc.fn = "compare" /\ calc.pc = "file2"
  /\ LET s2 == loadKeyedSheetXLSX(calc.h2, calc.rows2, calc.key, FALSE)
     IN calc' =
          IF s2.err THEN [calc EXCEPT !.pc = "failed", !.err = "read2"]
          ELSE IF Len(s2.dups) > 0
               THEN [calc EXCEPT !.pc = "failed", !.err = "dup2",
                                 !.examples = s2.dups]
               ELSE [calc EXCEPT !.pc = "export", !.m2 = s2.byKey]
  /\ UNCHANGED <<pipeline, faults, claimStart, aged, ttl, holds, lockCall, storeKind, updates, storeCall, fan, kick, proc, trimmed>>

\* GenerateCompareExportXLSX: the artifacts, the three sheets, the file.
Export ==
  /\ calc.fn = "compare" /\ calc.pc = "export"
  /\ LET sh == Sheets(calc.h1, calc.h2, calc.m1, calc.m2, calc.key)
     IN calc' = [calc EXCEPT !.pc = "done", !.workbook = TRUE,
                             !.added = sh.added, !.removed = sh.removed,
                             !.changed = sh.changed]
  /\ UNCHANGED <<pipeline, faults, claimStart, aged, ttl, holds, lockCall, storeKind, updates, storeCall, fan, kick, proc, trimmed>>

NextDiff ==
  \/ LoadFile1
  \/ LoadFile2
  \/ Export

SpecDiff == InitDiff /\ [][NextDiff]_vars

\* -------------------------------------------------------------- properties
\* C1: in every reachable job record, status ready implies a non-empty
\* artifact reference and paid = true.
ReadyHasArtifactAndPaid ==
  \A id \in Jobs :
    jobs[id].Status = Ready => jobs[id].ResultOSSKey # "" /\ jobs[id].Paid

\* C1 witness: a job released after the provider's notification for its order.
ReadyAfterPayment ==
  \E id \in Jobs :
    /\ jobs[id].Status = Ready
    /\ orders[id] > 0
    /\ notify.reply = "SUCCESS"

\* C2: in every reachable job record, status awaiting_payment implies a
\* non-empty artifact reference, paid = false and a non-empty code URL.
AwaitingHasArtifactUnpaidAndCode ==
  \A id \in Jobs :
    jobs[id].Status = AwaitingPayment =>
      jobs[id].ResultOSSKey # "" /\ ~jobs[id].Paid /\ jobs[id].CodeURL # ""

\* C2 witness: the paygate worker has put a job in awaiting_payment.
AwaitingReached ==
  \E id \in Jobs : jobs[id].Status = AwaitingPayment /\ orders[id] > 0

\* C3: once the stored status is cancelled or ready, no update of any
\* operation changes it to a different value.
TerminalStatusIsFinal ==
  [][\A id \in Jobs :
       jobs[id].Status \in {Cancelled, Ready} =>
         jobs'[id].Status = jobs[id].Status]_vars

\* C4: paid is monotone: once the stored paid flag is true it is true in
\* every later state.
PaidIsMonotone ==
  [][\A id \in Jobs : jobs[id].Paid => jobs'[id].Paid]_vars

\* C4 witness: a paid job that a compute worker has since marked as
\* processing again.
PaidThenUpdated ==
  \E id \in Jobs : jobs[id].Paid /\ jobs[id].Status = Processing

\* C5: download releases the artifact only for a ready, paid job with an
\* artifact reference; a cancelled job gets 410 and any other job that is
\* not ready or not paid gets 402.
DownloadReleasesOnlyReady ==
  /\ export.code = 200 =>
       export.job.Status = Ready /\ hasResult(export.job) /\ export.job.Paid
  /\ export.job.Exists /\ export.job.Status = Cancelled => export.code = 410
  /\ ( /\ export.job.Exists
       /\ export.job.Status # Cancelled
       /\ (export.job.Status # Ready \/ ~export.job.Paid) ) => export.code = 402

\* C5 witness: the artifact of a ready job has been released.
DownloadReleased ==
  export.code = 200 /\ export.job.Status = Ready /\ export.job.ResultOSSKey # ""

\* C6: for a job in awaiting_payment, no interleaving of a cancel and a
\* SUCCESS notify leaves a record that is cancelled with paid = true.
RaceNeverCancelledAndPaid ==
  \A id \in Jobs : ~(jobs[id].Status = Cancelled /\ jobs[id].Paid)

\* C7: after cancel has moved an awaiting_payment job to cancelled, a SUCCESS
\* notify processed afterwards leaves the status cancelled.
CancelledStaysCancelled ==
  [][\A id \in Jobs :
       jobs[id].Status = Cancelled => jobs'[id].Status = Cancelled]_vars

\* C7 witness: the notify handler's update has run on the cancelled job.
NotifiedAfterCancel ==
  \E id \in Jobs :
    /\ jobs[id].Status = Cancelled
    /\ jobs[id].Paid
    /\ notify.reply = "SUCCESS"

RejectedNotifyLeavesRecord ==
  [][( /\ notify.pc = "check"
       /\ notify' # notify
       /\ jobs[notify.job].Exists
       /\ \/ ToUpper(notify.state) # "SUCCESS"
          \/ notify.total # ExpectedFen(jobs[notify.job]) )
     => /\ jobs' = jobs
        /\ notify'.pc = "idle"
        /\ notify'.reply = IF ToUpper(notify.state) # "SUCCESS" THEN "SUCCESS"
                           ELSE "FAIL"]_vars

Running(c) ==
  h[c].pc \in {"load", "shortcut", "mark", "work", "persist", "reload", "enqueue"}

CrashedJobIsRecovered ==
  \A c \in ComputeConsumers :
    ( /\ h[c].pc = "dead"
      /\ jobs[h[c].job].Status = Processing
      /\ jobs[h[c].job].ResultOSSKey # ""
      /\ msgs["paygate"] = << >> )
    => \/ h[c].msg \in PendingIds("compute")
       \/ \E d \in ComputeConsumers :
            h[d].pc \notin {"idle", "dead"} /\ h[d].msg = h[c].msg

\* C15: an acquire call is answered "acquired" exactly when the key is
\* absent; it then stores the caller's token with a full lifetime, and
\* otherwise changes nothing.  So of any calls on a key that has not
\* expired at most one is answered "acquired".
AcquireOnlyIfAbsent ==
  [][lockCall'.seq # lockCall.seq /\ lockCall'.op = "acquire" =>
       LET k == lockCall'.key
           t == lockCall'.token
       IN /\ lockCall'.ok <=> lease[k] = NoOwner
          /\ lockCall'.ok => lease'[k] = t /\ ttl'[k] = MaxTTL
          /\ ~lockCall'.ok => lease' = lease /\ ttl' = ttl]_vars

\* C15 witness: a caller is refused while another token holds the key.
AcquireRefused ==
  /\ lockCall.op = "acquire"
  /\ ~lockCall.ok
  /\ lease[lockCall.key] \in Tokens \ {lockCall.token}
  /\ ttl[lockCall.key] > 0

\* C16: release deletes the key and refresh extends it only when the stored
\* value equals the caller's token; otherwise the call is answered
\* not-owner and leaves the key, its value and its lifetime as they were.
OnlyOwnerReleasesOrRefreshes ==
  [][lockCall'.seq # lockCall.seq /\ lockCall'.op \in {"release", "refresh"} =>
       LET k == lockCall'.key
           t == lockCall'.token
       IN /\ lockCall'.ok <=> lease[k] = t
          /\ lockCall'.ok /\ lockCall'.op = "release" =>
               lease'[k] = NoOwner /\ ttl'[k] = 0
          /\ lockCall'.ok /\ lockCall'.op = "refresh" =>
               lease'[k] = t /\ ttl'[k] = MaxTTL
          /\ ~lockCall'.ok => lease' = lease /\ ttl' = ttl]_vars

\* C16 witness: an invocation whose lease expired calls release or refresh
\* while another token holds the key, and is answered not-owner.
StaleOwnerRefused ==
  /\ lockCall.op \in {"release", "refresh"}
  /\ ~lockCall.ok
  /\ lease[lockCall.key] \in Tokens \ {lockCall.token}
  /\ ttl[lockCall.key] > 0

\* C17: a create for an id that already has a record fails with an
\* "exists" error and leaves the stored record unchanged.
CreateOnlyIfAbsent ==
  storeCall.err # "none" /\ storeCall.before.Exists =>
    storeCall.err = "exists" /\ jobs[storeCall.id] = storeCall.before

\* C18: every update that returns without error has written its mutator
\* applied to the record stored at that moment, so the stored record is the
\* result of the successful mutators in the order of their writes; a call
\* that gives up after its eighth conflict returns an error and writes
\* nothing; nothing else writes.
UpdateIsAtomic ==
  [][\A u \in Updaters :
       /\ updates[u].pc # "idle" /\ updates'[u].pc = "idle" /\ updates'[u].reply = "ok" =>
            jobs'[updates[u].id] = Apply(updates[u].mut, jobs[updates[u].id])
       /\ updates[u].pc # "idle" /\ updates'[u].pc = "idle" /\ updates'[u].reply # "ok" =>
            jobs' = jobs
       /\ updates'[u].reply = "exceeded" /\ updates[u].reply # "exceeded" =>
            updates[u].tries = MaxRetries - 1 /\ updates[u].dirty]_vars

\* C18 witness: a call has given up after its retries while the other
\* client's updates went through.
RetriesExhausted ==
  \E u, v \in Updaters :
    /\ updates[u].reply = "exceeded"
    /\ updates[v].reply = "ok"
    /\ jobs["j1"].Exists

\* C19: for a job with a stored artifact and a fee above 0 that is not
\* cancelled, once a run of the paygate worker's Process and the handling
\* of a SUCCESS notification have both finished, in whatever order their
\* steps interleaved and with every remote call answering, the job is ready
\* and paid.
PaidNotifyConverges ==
  ( /\ ~faults
    /\ notify.pc = "idle" /\ notify.reply # "none"
    /\ h["p1"].pc = "idle" /\ inbox["p1"] = << >>
    /\ cursor["paygate"] = 1 /\ pel["paygate"] = {} )
  => \A id \in Jobs : jobs[id].Status = Ready /\ jobs[id].Paid

FanoutBounded ==
  fan.running <= (IF fan.n > 1 THEN fan.n ELSE 1)

\* C21 witness: N = 2 handlers are running and the loop holds a further
\* message of an auto-claim reply that it cannot dispatch.
FanoutSaturated ==
  /\ fan.n = 2 /\ fan.running = 2
  /\ fan.batch > 0 /\ fan.at = "read"

\* C24: normalizing a cell value twice gives what normalizing it once gives.
NormalizeIdempotent ==
  calc.fn = "normalize" /\ Len(calc.out) = 2 => calc.out[2] = calc.out[1]

\* C24 witness: a signed value with a fraction of zeros and a blank before it
\* has been normalized twice, and the first pass rewrote it.
NormalizedTwice ==
  /\ calc.fn = "normalize" /\ Len(calc.out) = 2
  /\ calc.in = <<" ", "+", "1", ".", "0", "0">>
  /\ calc.out = << <<"1">>, <<"1">> >>

\* C25: the names normalizeHeaders returns are pairwise distinct, whatever
\* the header row.
HeadersDistinct ==
  calc.fn = "headers" /\ calc.pc # "file1" => Distinct(calc.h1)

\* C26: the columns of the Changed sheet are the columns of file 1 in their
\* order without the key, then the columns of file 2 that file 1 does not
\* have, in the order of file 2, without the key; no column appears twice.
UnionOrdered ==
  calc.fn = "headers" /\ calc.pc = "done" =>
    LET first == Without(calc.h1, {calc.key})
        rest == SubSeq(calc.cols, Len(first) + 1, Len(calc.cols))
    IN /\ Len(calc.cols) >= Len(first)
       /\ SubSeq(calc.cols, 1, Len(first)) = first
       /\ Elems(rest) = Elems(calc.h2) \ (Elems(calc.h1) \cup {calc.key})
       /\ \A i, j \in 1..Len(rest) :
            i < j => indexOfHeader(calc.h2, rest[i]) < indexOfHeader(calc.h2, rest[j])
       /\ Distinct(calc.cols)

\* The score the key column inference is specified to give a column that is
\* not disqualified: 10 when the header contains a keyword, 5 when every
\* sampled value is key-like.
SpecifiedScore(c) ==
  KeywordScoreOnce(calc.headers[c])
    + (IF \A i \in 1..Len(Values(calc.rows, c)) : KeyLike(Values(calc.rows, c)[i])
       THEN 5 ELSE 0)

\* C23: the inferred key column is the earliest of the highest-scoring
\* columns among those with no empty and no repeated sampled value, a header
\* keyword counting 10 once and key-like values 5; inference fails exactly
\* when no column qualifies.
GuessAsSpecified ==
  calc.fn = "guess" /\ calc.pc = "done" =>
    LET cand == {c \in 1..Len(calc.headers) : Qualifies(calc.rows, c)}
        top == {c \in cand : \A d \in cand : SpecifiedScore(d) <= SpecifiedScore(c)}
    IN /\ calc.ok <=> cand # {}
       /\ cand # {} =>
            calc.col = calc.headers[CHOOSE c \in top : \A d \in top : c <= d]

\* The keys of a file: the normalized, non-blank cells of its key column.
KeysIn(headers, rows) ==
  {normalizeScalarForCompare(rows[i][indexOfHeader(headers, calc.key)]) :
     i \in 1..Len(rows)} \ {<< >>}

\* The rows of a file with key k.
RowsWith(headers, rows, k) ==
  {i \in 1..Len(rows) :
     normalizeScalarForCompare(rows[i][indexOfHeader(headers, calc.key)]) = k}

\* The cell of the row with key k under the column named c, blank when the
\* file has no such column.
CellOf(headers, rows, k, c) ==
  IF c \in Elems(headers)
  THEN rows[CHOOSE i \in RowsWith(headers, rows, k) : TRUE][indexOfHeader(headers, c)]
  ELSE << >>

DupKeys(headers, rows) ==
  {k \in KeysIn(headers, rows) : Cardinality(RowsWith(headers, rows, k)) > 1}

\* C27: when two rows of a file have the same non-blank normalized key, the
\* comparison ends with the error that names that file and lists at most
\* MaxExamples distinct repeated keys, and writes no workbook; rows with a
\* blank normalized key are dropped and are never counted as repeats.
DuplicateKeysFatal ==
  calc.fn = "compare" /\ calc.pc \in {"done", "failed"} /\ calc.err # "read1" =>
    LET D1 == DupKeys(calc.h1, calc.rows1)
        D2 == DupKeys(calc.h2, calc.rows2)
        D == IF calc.err = "dup1" THEN D1 ELSE D2
    IN /\ calc.err = "dup1" <=> D1 # {}
       /\ D1 = {} /\ calc.err # "read2" => (calc.err = "dup2" <=> D2 # {})
       /\ calc.err \in {"dup1", "dup2"} =>
            /\ ~calc.workbook
            /\ Len(calc.examples) <= MaxExamples
            /\ Len(calc.examples) > 0
            /\ Distinct(calc.examples)
            /\ Elems(calc.examples) \subseteq D
       /\ calc.workbook =>
            /\ D1 = {} /\ D2 = {}
            /\ << >> \notin DOMAIN calc.m1 \cup DOMAIN calc.m2

\* C27 witness: file 2 repeats more keys than an error lists, each as n and
\* n.0, and the call has failed naming file 2 with MaxExamples of them.
ManyDuplicatesListed ==
  /\ calc.fn = "compare" /\ calc.pc = "failed" /\ calc.err = "dup2"
  /\ Cardinality(DupKeys(calc.h2, calc.rows2)) > MaxExamples
  /\ Len(calc.examples) = MaxExamples

\* C28: a compute handler that loads a job with an artifact reference and
\* status awaiting_payment or processing goes to the short-circuit, which
\* only appends the job id to the paygate stream and returns terminal (or,
\* when the XADD fails, appends nothing and returns the error); neither step
\* runs the diff engine or writes the job record.
ShortcutOnlyEnqueues ==
  [][\A c \in ComputeConsumers :
       LET id == h[c].job
       IN /\ h[c].pc = "load" /\ h'[c] # h[c]
             /\ jobs[id].Exists /\ jobs[id].ResultOSSKey # ""
             /\ jobs[id].Status \in {AwaitingPayment, Processing} =>
               /\ \/ h'[c].pc = "shortcut"
                  \/ h'[c].pc = "ret" /\ h'[c].res = "transient"
               /\ jobs' = jobs /\ msgs' = msgs
          /\ h[c].pc = "shortcut" /\ h'[c] # h[c] =>
               /\ h'[c].pc = "ret"
               /\ jobs' = jobs
               /\ \/ /\ msgs' = [msgs EXCEPT !["paygate"] = Append(@, id)]
                     /\ h'[c].res = "terminal"
                  \/ /\ msgs' = msgs
                     /\ h'[c].res = "transient"]_vars

\* C28 witness: a handler that holds the lease and has computed nothing
\* (key is empty) has returned terminal on a processing job with an
\* artifact, and the paygate stream holds the job id.
ShortcutTaken ==
  \E c \in ComputeConsumers :
    /\ h[c].pc = "ret" /\ h[c].res = "terminal" /\ h[c].held /\ h[c].key = ""
    /\ jobs[h[c].job].ResultOSSKey # "" /\ jobs[h[c].job].Status = Processing
    /\ msgs["paygate"] = <<h[c].job>>

\* C29 as stated: no compute handler appends a job to the paygate stream
\* while the job's status is cancelled.
NoEnqueueWhenCancelled ==
  [][\A c \in ComputeConsumers :
       h[c].pc \in {"enqueue", "shortcut"} /\ msgs'["paygate"] # msgs["paygate"]
         => jobs[h[c].job].Status # Cancelled]_vars

\* C29: a compute handler that finds the job cancelled when it re-loads it
\* after the diff (or when it first loads it) returns without appending to
\* the paygate stream, and no step stores an artifact reference on a
\* cancelled record.
CancelledAtReloadNotEnqueued ==
  [][/\ \A id \in Jobs :
          jobs[id].Status = Cancelled =>
            jobs'[id].ResultOSSKey = jobs[id].ResultOSSKey
     /\ \A c \in ComputeConsumers :
          h[c].pc \in {"load", "reload"} /\ h'[c] # h[c]
            /\ jobs[h[c].job].Status = Cancelled =>
              /\ h'[c].pc = "ret"
              /\ h'[c].res \in {"terminal", "transient"}
              /\ msgs' = msgs]_vars

\* C29 witness: a handler that computed the diff while the job was being
\* cancelled has returned terminal; the record is cancelled with no artifact
\* reference and nothing is on the paygate stream.
CancelledDuringDiff ==
  \E c \in ComputeConsumers :
    /\ h[c].pc = "ret" /\ h[c].res = "terminal" /\ h[c].key # ""
    /\ jobs[h[c].job].Status = Cancelled
    /\ jobs[h[c].job].ResultOSSKey = ""
    /\ msgs["paygate"] = << >>

GatedJobUntouched ==
  [][\A c \in PaygateConsumers :
       LET job == jobs[h[c].job]
       IN h[c].pc = "load" /\ h'[c] # h[c]
            /\ job.Exists /\ job.Status = AwaitingPayment /\ job.CodeURL # "" =>
              /\ h'[c].pc = "ret"
              /\ h'[c].res \in {"terminal", "transient"}
              /\ jobs' = jobs
              /\ orders' = orders]_vars

\* C31: a duplicate delivery has reached a job that is already gated.
GatedJobRedelivered ==
  \E c \in PaygateConsumers :
    /\ h[c].pc = "ret" /\ h[c].res = "terminal" /\ h[c].msg = 2
    /\ jobs[h[c].job].Status = AwaitingPayment
    /\ jobs[h[c].job].CodeURL # ""
    /\ orders[h[c].job] = 1

\* C31: over duplicate paygate deliveries with no worker killed, at most one
\* external payment order is created per job.
AtMostOneOrder == \A id \in Jobs : orders[id] <= 1

ComputeMessageHasRecord ==
  \A i \in 1..Len(msgs["compute"]) : jobs[msgs["compute"][i]].Exists

\* C33 (the order of the two calls and the failure path): the enqueue comes
\* after the Create call, and handleCreateJob reports a failed enqueue.
IntakeCreatesThenEnqueues ==
  [][\A id \in Jobs :
       /\ msgs'["compute"] # msgs["compute"] =>
            intake[id] = "created" /\ intake'[id] = "accepted"
       /\ intake[id] = "created" /\ intake'[id] # "created"
            /\ msgs'["compute"] = msgs["compute"] =>
              /\ intake'[id] = "rejected"
              /\ jobs'[id] \in {jobs[id], IntakeFail(jobs[id], "enqueue")}]_vars

\* C34: what the claim says of an invocation that acquired the lease and has
\* returned: the key does not hold its token and no Refresh was begun after
\* the return.
ReleasedAndQuiet ==
  kick.pc = "returned" /\ kick.held =>
    lease[KickKey] # KickToken /\ kick.late = 0

\* C34 (as the code has it): on every exit path stopKick is closed and
\* Release is called before Process returns; from the moment a Release call
\* has been answered the key does not hold the token, whatever the refresher
\* still does; the refresher stops only on the closed channel or the
\* cancelled context.
ClosedAndReleaseCalled ==
  /\ kick.pc = "returned" /\ kick.held =>
       /\ kick.stop = "closed"
       /\ kick.rel # "none"
       /\ kick.rel = "ok" => lease[KickKey] # KickToken
  /\ kick.gor = "done" => kick.stop = "closed" \/ kick.ctx = "done"

\* C34 witness: Process panicked, the deferred calls ran, Release was
\* answered and the refresher has stopped.
ReleasedAfterPanic ==
  /\ kick.pc = "returned" /\ kick.held /\ kick.exit = "panic"
  /\ kick.rel = "ok" /\ kick.gor = "done" /\ kick.stop = "closed"
  /\ lease[KickKey] = NoOwner

\* C35: when the worker process exits after the cancel signal, no handler is
\* in flight: every handler that was dispatched has returned.
HandlersFinishBeforeExit ==
  proc.at = "exited" => fan.started = 0 /\ fan.running = 0

\* C35 (sequential consumer): with c.concur nil the loop itself runs the
\* handler, so the loop returns only between handlers.
SequentialHandlerFinishes ==
  proc.at # "loop" /\ fan.cap = 0 => fan.running = 0 /\ ~fan.busy

\* C36: when the length cap evicts the entry of job j1 before it was
\* acknowledged (never read, or read and still pending), the job's record
\* still exists and the job is eventually handed to a handler.
TrimmedUnacked ==
  /\ 1 \in trimmed["compute"]
  /\ cursor["compute"] < 1 \/ 1 \in PendingIds("compute")

TrimmedStillDelivered ==
  [](TrimmedUnacked =>
       /\ jobs["j1"].Exists
       /\ <>(h["c1"].pc = "acquire" /\ h["c1"].job = "j1" /\ 1 \in trimmed["compute"]))

\* C36: why the delivery never comes, whatever is enqueued later: once the
\* entry is evicted and no consumer has it fetched or in its handler, no step
\* puts it there again.
EvictedNeverFetched ==
  [][(/\ 1 \in trimmed["compute"]
      /\ \A c \in ComputeConsumers :
           h[c].msg # 1 /\ \A i \in 1..Len(inbox[c]) : inbox[c][i] # 1)
       => (\A c \in ComputeConsumers :
             h'[c].msg # 1 /\ \A i \in 1..Len(inbox'[c]) : inbox'[c][i] # 1)]_vars

\* C36: the part that holds: eviction leaves the job's record in place.
TrimmedRecordExists == TrimmedUnacked => jobs["j1"].Exists

\* C36: the entry of j1 has been evicted before any consumer read it.
TrimmedBeforeRead == 1 \in trimmed["compute"] /\ cursor["compute"] = 0


\* C37: once the provider's SUCCESS notification has been accepted (the job
\* is paid; every notification in SpecRetry carries the order's amount), every
\* further delivery of it passes the amount check, and its update changes
\* nothing and is answered SUCCESS.
ReplayAnsweredSuccess ==
  [][/\ (/\ notify.pc = "check"
         /\ notify' # notify
         /\ jobs[notify.job].Paid
         /\ ToUpper(notify.state) = "SUCCESS"
         /\ notify.total = fee) => notify'.pc = "update"
     /\ (notify.pc = "update" /\ notify' # notify /\ jobs[notify.job].Paid)
          => jobs' = jobs /\ notify'.reply = "SUCCESS"]_vars

\* C37: a replay of the accepted notification has been answered FAIL.
ReplayRejected ==
  /\ jobs["j1"].Paid
  /\ jobs["j1"].Status = Ready
  /\ notify.pc = "idle"
  /\ notify.reply = "FAIL"


\* C38: the compute stage has nothing left to do for job j1: no unread or
\* pending compute message, no fetched message and no running handler.
ComputeQuiet ==
  /\ cursor["compute"] = Len(msgs["compute"])
  /\ pel["compute"] = {}
  /\ \A c \in ComputeConsumers : h[c].pc = "idle" /\ inbox[c] = << >>

\* C38: no job is stranded: a job whose id was enqueued on the compute stream
\* is never left in plain processing with the compute stage quiet and no
\* paygate entry (from such a state no step of any worker changes the job).
NoJobStranded ==
  ~(/\ Len(msgs["compute"]) > 0
    /\ ComputeQuiet
    /\ jobs["j1"].Status = Processing
    /\ msgs["paygate"] = << >>)

\* C38: the same for a job whose artifact is stored: its message is never
\* acknowledged by a worker that found the lease held while the holder goes
\* on to fail before the paygate enqueue.
NoComputedJobStranded ==
  ~(/\ Len(msgs["compute"]) > 0
    /\ ComputeQuiet
    /\ jobs["j1"].Status = Processing
    /\ jobs["j1"].ResultOSSKey # ""
    /\ msgs["paygate"] = << >>)


\* C39: whenever a compute worker that has just computed the diff puts the
\* job id on the paygate stream, the stored record holds a non-empty artifact
\* reference at that moment.
EnqueuedWithArtifact ==
  [][\A c \in ComputeConsumers :
       (/\ h[c].pc = "enqueue"
        /\ h'[c].pc = "ret"
        /\ msgs'["paygate"] = Append(msgs["paygate"], h[c].job))
         => jobs[h[c].job].ResultOSSKey # ""]_vars

\* C39: the paygate stream holds the id of a job whose record has no artifact
\* reference.
PaygateEntryWithoutArtifact ==
  /\ msgs["paygate"] # << >>
  /\ jobs["j1"].Exists
  /\ jobs["j1"].ResultOSSKey = ""


\* C40: whenever handleCancelJob answers 200 with status cancelled after its
\* update, the stored status is cancelled when it answers.
CancelReportsTruth ==
  [][(/\ cancel.pc = "update"
      /\ cancel'.pc = "idle"
      /\ cancel'.reply = 200)
       => jobs'[cancel.job].Status = Cancelled]_vars

\* C40: the cancel request has been answered 200 and the job is still
\* awaiting payment.
CancelAnsweredButAwaiting ==
  /\ cancel.pc = "idle"
  /\ cancel.reply = 200
  /\ jobs["j1"].Status = AwaitingPayment
  /\ ~jobs["j1"].Paid

====
